---- MODULE Spec2Model ----
(***************************************************************************)
(* A model of bkp (nzentzis/bkp): the content-defined chunker              *)
(* (src/src/chunking.rs), the metadata codec (src/src/metadata.rs), the    *)
(* SFTP object store with its bkp.lock discipline (src/src/remote/ssh.rs)  *)
(* and the snapshot commit path of the history layer (src/src/history.rs). *)
(*                                                                         *)
(* The module holds several specifications over one set of variables:      *)
(*   SpecChunk  the chunker run on a scripted byte source                  *)
(*   SpecCodec  MetaObject::save followed by MetaObject::load              *)
(*   SpecObjects, SpecObjectsSerial                                        *)
(*              processes storing and fetching blocks and metadata objects *)
(*              on one destination over SFTP, in every interleaving of     *)
(*              their requests, or call after call                         *)
(*   SpecCommit, SpecCommitSerial                                          *)
(*              processes reading the head and committing snapshots        *)
(*   SpecFaultsSerial                                                      *)
(*              the same call after call, with writes that fail            *)
(*   SpecConnect                                                           *)
(*              RemoteBackend::create with initialize request by request   *)
(*   SpecListSerial                                                        *)
(*              objects stored and list_meta called                        *)
(*   SpecHistory, SpecDamaged                                              *)
(*              one process storing paths of a local file system, making   *)
(*              snapshots, checking the chain and looking paths up; in     *)
(*              SpecDamaged files of the destination go missing            *)
(*   SpecFaultsFair                                                        *)
(*              SpecFaultsSerial with processes that go on to the end of   *)
(*              the block in which they hold the lock                      *)
(*   SpecNodesSerial                                                       *)
(*              SpecObjectsSerial with the processes on two nodes          *)
(*   SpecAny    one process storing metadata objects of any kind and       *)
(*              setting the head to any stored tag, checking, looking up   *)
(*   SpecMisplaced                                                         *)
(*              SpecHistory with block files copied over one another       *)
(*   SpecLoop, SpecLoopFair                                                *)
(*              check loop turn by loop turn, with snapshot files copied   *)
(*              over one another; in SpecLoopFair a check goes on          *)
(*   SpecFrame  update_paths on one path at a time of a tree that changes  *)
(*   SpecCaller update_paths on a tree with a named pipe, get_path on      *)
(*              paths that are not canonical                               *)
(* A specification leaves the variables of the other parts unchanged.      *)
(***************************************************************************)
EXTENDS Integers, Sequences, FiniteSets, TLC

VARIABLES
    \* ---- chunking.rs: struct Chunks { data, sum, iter } ----
    src,        \* the script of the byte source, as given to chunks()
    iter,       \* what the byte source has still to yield
    data,       \* Chunks::data, the bytes buffered for the current chunk
    sum,        \* Chunks::sum, the rolling sum (u32)
    ret,        \* what the calls of next() have returned so far, in order
    last,       \* how the last loop iteration of next() ended
    \* ---- metadata.rs: one MetaObject saved and loaded again ----
    cx,         \* the MetaObject handed to save
    cbytes,     \* the bytes save wrote
    ctag,       \* the identity tag save returned
    cy,         \* what load made of the bytes
    cpc,        \* "new", "saved" or "loaded"
    \* ---- remote/ssh.rs and history.rs: processes on one destination ----
    dirs,       \* the directories under the destination root
    files,      \* the files under the destination root, path -> content
    keystore,   \* the local keystore of each node: its data key, if any
    sched,      \* how the processes are scheduled: "any" order, or "serial"
    node,       \* Backend::node of each process, the node it runs on
    keygen,     \* the number of data keys that new_data_key has drawn
    pc,         \* where each process stands in the call it runs
    call,       \* the locals of the call each process runs
    ev,         \* the call that returned in the last step, if one did
    written,    \* <<p, tag>> for every tag a write_block of p has returned
    committed,  \* <<node, tag>> for every tag a new_snapshot has returned
    begun,      \* the number of new_snapshot calls that have taken their first lock
    \* ---- history.rs: the local file system and the last update_paths ----
    disk,       \* the local file system as the last update_paths found it,
                \* path -> entry
    upd,        \* the last update_paths that returned a root: the root, the
                \* disk it read, the paths it retained, and the snapshot
                \* made of the root since
    updates,    \* how many update_paths calls have been made
    chk         \* the check that runs: its mode and the `head` of its loop

chunkVars == <<src, iter, data, sum, ret, last>>
codecVars == <<cx, cbytes, ctag, cy, cpc>>
histVars == <<disk, upd, updates, chk>>
storeVars == <<dirs, files, keystore, sched, node, keygen, pc, call, ev, written,
               committed, begun, disk, upd, updates, chk>>

vars == <<src, iter, data, sum, ret, last, cx, cbytes, ctag, cy, cpc,
          dirs, files, keystore, sched, node, keygen, pc, call, ev, written,
          committed, begun, disk, upd, updates, chk>>

Max(a, b) == IF a >= b THEN a ELSE b
Min(a, b) == IF a <= b THEN a ELSE b

(***************************************************************************)
(*                         THE CHUNKER (chunking.rs)                       *)
(***************************************************************************)

\* The rolling window of the sum and the divisor that ends a chunk.
Window == 8196
Divisor == 4096
InitialSum == 1

\* The byte source is an Iterator<Item = Result<u8, E>>.  It is scripted as a
\* sequence of runs [v, n]: n times the byte v, or, for v = ErrItem, n times
\* a read error.  The source is fused: once exhausted it stays exhausted.
ErrItem == -1
Run(v, n) == [v |-> v, n |-> n]

\* Bounds of the scripted inputs.
MaxShort == 3        \* every input of at most MaxShort items is tried
MaxEofCalls == 2     \* calls of next() made after the source is exhausted

ShortItems == {0, 1, 255, ErrItem}

RECURSIVE ShortScripts(_)
ShortScripts(n) ==
    IF n = 0 THEN {<<>>}
    ELSE LET shorter == ShortScripts(n - 1)
         IN shorter \cup {Append(s, Run(v, 1)) : s \in {t \in shorter : Len(t) = n - 1},
                                                  v \in ShortItems}

\* Long inputs, which reach the divisor and the window.
LongScripts ==
    { <<Run(1, 5000)>>,                              \* chunk_test: 4095 + 905
      <<Run(255, 600)>>,                             \* 1 + 255*257 = 16*4096
      <<Run(1, 1), Run(0, 8195), Run(1, 4100)>>,     \* the first byte leaves the window
      <<Run(0, 8200)>>,                              \* never a boundary
      <<Run(1, 4095), Run(255, 257)>>,               \* ends on a boundary
      <<Run(17, 240), Run(15, 1), Run(3, 2)>>,       \* 1 + 17*240 + 15 = 4096
      <<Run(255, 257), Run(ErrItem, 1), Run(1, 3)>>, \* an error on an empty buffer
      <<Run(1, 4095), Run(7, 2), Run(ErrItem, 1)>>,  \* an error on a partial buffer
      <<Run(2, 3), Run(ErrItem, 2), Run(1, 4093)>> } \* bytes after two errors

ErrCount(script) == Cardinality({i \in 1..Len(script) : script[i].v = ErrItem})

\* The short inputs hold at most one error; two long ones hold more.
Scripts == {s \in ShortScripts(MaxShort) : ErrCount(s) <= 1} \cup LongScripts

\* Iterator::next of the byte source: the head item and the rest.
IterHead(it) == it[1].v
IterRest(it) == IF it[1].n = 1 THEN Tail(it)
                ELSE <<Run(it[1].v, it[1].n - 1)>> \o Tail(it)

\* The chunker left aside by the other specifications.
ChunkIdle ==
    /\ src = <<>>
    /\ iter = <<>>
    /\ data = <<>>
    /\ sum = InitialSum
    /\ ret = <<>>
    /\ last = "new"

ChunkStart ==
    /\ src \in Scripts
    /\ iter = src
    /\ data = <<>>
    /\ sum = InitialSum
    /\ ret = <<>>
    /\ last = "new"

\* The results next() returns.
OkChunk(c) == [kind |-> "chunk", bytes |-> c]
ErrResult == [kind |-> "err", bytes |-> <<>>]
NoneResult == [kind |-> "none", bytes |-> <<>>]

\* The sum after byte x has been pushed and the buffer holds pushed.
\* chunking.rs:34-42: add the byte, then subtract data[len - 8196] once
\* len >= 8196 (0-based; Vec::get never fails there).  The sum is a u32; it
\* is kept here as an integer, and SumInRange states that it never leaves the
\* range of a u32, so that no addition or subtraction wraps or panics.
SumAfterPushNoWindow(s, pushed, x) == s + x

SumAfterPush(s, pushed, x) ==
    LET added == s + x
        len == Len(pushed)
    IN IF len >= Window
       THEN added - pushed[len - Window + 1]
       ELSE added

\* chunking.rs:45: whether the chunk ends here.
IsBoundaryFromZero(s) == (s - 1) % Divisor = 0

IsBoundary(s) == s % Divisor = 0

\* One iteration of the while loop with an Ok byte (chunking.rs:25-50): the
\* byte is pushed and the sum updated; on a boundary the buffer is returned
\* and the sum reset, otherwise the loop goes on.
ChunkByte ==
    /\ iter # <<>>
    /\ IterHead(iter) # ErrItem
    /\ LET x == IterHead(iter)
           pushed == Append(data, x)
           s == SumAfterPush(sum, pushed, x)
       IN /\ iter' = IterRest(iter)
          /\ IF IsBoundary(s)
             THEN /\ sum' = InitialSum
                  /\ data' = <<>>
                  /\ ret' = Append(ret, OkChunk(pushed))
                  /\ last' = "break"
             ELSE /\ sum' = s
                  /\ data' = pushed
                  /\ ret' = ret
                  /\ last' = "more"
    /\ UNCHANGED <<src, codecVars, storeVars>>

\* The source yields an error (chunking.rs:27-30): next() returns it at once.
\* Neither the buffer nor the sum is touched.
ChunkErr ==
    /\ iter # <<>>
    /\ IterHead(iter) = ErrItem
    /\ iter' = IterRest(iter)
    /\ ret' = Append(ret, ErrResult)
    /\ last' = "err"
    /\ UNCHANGED <<src, data, sum, codecVars, storeVars>>

\* The source is exhausted (chunking.rs:53-60): the buffer, if not empty, is
\* returned as the last chunk; otherwise next() returns None.
EofResultDropsTail(d) == NoneResult

EofResult(d) == IF Len(d) # 0 THEN OkChunk(d) ELSE NoneResult

NoneCalls == Cardinality({i \in 1..Len(ret) : ret[i].kind = "none"})

ChunkEof ==
    /\ iter = <<>>
    /\ LET r == EofResult(data)
       IN /\ r.kind = "none" => NoneCalls < MaxEofCalls
          /\ ret' = Append(ret, r)
          /\ data' = IF r.kind = "chunk" THEN <<>> ELSE data
          /\ last' = IF r.kind = "chunk" THEN "eof" ELSE "none"
    /\ UNCHANGED <<src, iter, sum, codecVars, storeVars>>

ChunkNext == ChunkByte \/ ChunkErr \/ ChunkEof

(***************************************************************************)
(*                     THE METADATA CODEC (metadata.rs)                    *)
(***************************************************************************)

\* A byte stream is a sequence of tokens <<width, value>>: an integer of 8,
\* 16, 32 or 64 bits (written little-endian by byteorder), or the 256 bits of
\* an identity tag.  A name or a target is a sequence of byte values.
U8(v) == <<8, v>>
U16(v) == <<16, v>>
U32(v) == <<32, v>>
U64(v) == <<64, v>>
TagTok(t) == <<256, t>>
Bytes(bs) == [i \in 1..Len(bs) |-> U8(bs[i])]

\* SHA-256, taken to be free of collisions: the digest stands for the bytes
\* hashed.  tag_from_digest copies the 32 bytes of the digest.
Sha256(stream) == [sha256 |-> stream]
tag_from_digest(d) == d

\* An Option<T> is a sequence of at most one T.
None == <<>>
Some(v) == <<v>>

\* A SystemTime, as seconds and nanoseconds from the epoch.
Time(s, ns) == [secs |-> s, nanos |-> ns]

\* `x as u16`
AsU16(v) == v % 65536

\* metadata.rs:315-320 (write_time) and 63-70: duration_since(UNIX_EPOCH) is an
\* error for a time before the epoch, which is clamped to 0; as_secs drops
\* the nanoseconds.
EpochSecs(t) == IF t.secs < 0 THEN 0 ELSE t.secs

\* metadata.rs:62-75, FSMetadata::save
FSMetadataSave(m) ==
    << U64(EpochSecs(m.mtime)), U64(EpochSecs(m.atime)),
       U32(m.uid), U32(m.gid), U16(AsU16(m.mode)) >>

Snapshot(t, root, parent) ==
    [kind |-> "Snapshot", create_time |-> t, root |-> root, parent |-> parent]
TreeObject(name, meta, children) ==
    [kind |-> "Tree", name |-> name, meta |-> meta, children |-> children]
FileObject(name, meta, body) ==
    [kind |-> "File", name |-> name, meta |-> meta, body |-> body]
SymlinkObject(name, meta, target) ==
    [kind |-> "Symlink", name |-> name, meta |-> meta, target |-> target]

\* metadata.rs:324-370, MetaObject::save: the bytes written.  The Symlink arm
\* (361-369) writes the length and the bytes of the name where the target
\* belongs.
SaveBytes(obj) ==
    CASE obj.kind = "Snapshot" ->
            <<U8(0), U64(EpochSecs(obj.create_time)), TagTok(obj.root)>>
                \o (IF obj.parent # None
                    THEN <<U8(1), TagTok(obj.parent[1])>>
                    ELSE <<U8(0)>>)
      [] obj.kind = "Tree" ->
            <<U8(1), U16(AsU16(Len(obj.name)))>> \o Bytes(obj.name)
                \o FSMetadataSave(obj.meta)
                \o <<U32(Len(obj.children))>>
                \o [i \in 1..Len(obj.children) |-> TagTok(obj.children[i])]
      [] obj.kind = "File" ->
            <<U8(3), U16(AsU16(Len(obj.name)))>> \o Bytes(obj.name)
                \o FSMetadataSave(obj.meta)
                \o <<U32(Len(obj.body))>>
                \o [i \in 1..Len(obj.body) |-> TagTok(obj.body[i])]
      [] obj.kind = "Symlink" ->
            <<U8(2), U16(AsU16(Len(obj.name)))>> \o Bytes(obj.name)
                \o FSMetadataSave(obj.meta)
                \o <<U32(Len(obj.name))>> \o Bytes(obj.name)

\* metadata.rs:372, and 180-183 (ident): the tag is the SHA-256 of the bytes
\* written.
SaveTag(obj) == tag_from_digest(Sha256(SaveBytes(obj)))

\* The results of load.
Loaded(obj) == [ok |-> TRUE, obj |-> obj]
LoadError == [ok |-> FALSE, obj |-> <<>>]

\* Whether the stream holds tokens of the widths ws from position p on
\* (read_u8, read_u16, ... and read_exact fail on a short stream).
HasToks(st, p, ws) ==
    /\ p + Len(ws) - 1 <= Len(st)
    /\ \A i \in 1..Len(ws) : st[p + i - 1][1] = ws[i]

Widths(n, w) == [i \in 1..n |-> w]

\* metadata.rs:50-60, FSMetadata::load, of the five tokens from position p.
FSMetadataLoad(st, p) ==
    [mtime |-> Time(st[p][2], 0), atime |-> Time(st[p + 1][2], 0),
     uid |-> st[p + 2][2], gid |-> st[p + 3][2], mode |-> st[p + 4][2]]

FSWidths == <<64, 64, 32, 32, 16>>

\* metadata.rs:263-307: name, metadata, a count and that many items of width
\* w (identity tags for a Tree or a File, bytes for a Symlink's target).
LoadNamed(st, w) ==
    IF ~HasToks(st, 2, <<16>>) THEN LoadError
    ELSE LET namelen == st[2][2]
             pm == 3 + namelen
         IN IF ~HasToks(st, 3, Widths(namelen, 8) \o FSWidths \o <<32>>) THEN LoadError
            ELSE LET count == st[pm + 5][2]
                 IN IF ~HasToks(st, pm + 6, Widths(count, w)) THEN LoadError
                    ELSE Loaded([name |-> [i \in 1..namelen |-> st[2 + i][2]],
                                 meta |-> FSMetadataLoad(st, pm),
                                 items |-> [i \in 1..count |-> st[pm + 5 + i][2]]])

\* metadata.rs:246-313, MetaObject::load
Load(st) ==
    IF ~HasToks(st, 1, <<8>>) THEN LoadError
    ELSE CASE st[1][2] = 0 ->
                IF ~HasToks(st, 2, <<64, 256, 8>>) THEN LoadError
                ELSE IF st[4][2] # 0
                     THEN IF ~HasToks(st, 5, <<256>>) THEN LoadError
                          ELSE Loaded(Snapshot(Time(st[2][2], 0), st[3][2], Some(st[5][2])))
                     ELSE Loaded(Snapshot(Time(st[2][2], 0), st[3][2], None))
           [] st[1][2] = 1 ->
                LET r == LoadNamed(st, 256)
                IN IF r.ok THEN Loaded(TreeObject(r.obj.name, r.obj.meta, r.obj.items))
                   ELSE LoadError
           [] st[1][2] = 2 ->
                LET r == LoadNamed(st, 8)
                IN IF r.ok THEN Loaded(SymlinkObject(r.obj.name, r.obj.meta, r.obj.items))
                   ELSE LoadError
           [] st[1][2] = 3 ->
                LET r == LoadNamed(st, 256)
                IN IF r.ok THEN Loaded(FileObject(r.obj.name, r.obj.meta, r.obj.items))
                   ELSE LoadError
           [] OTHER -> LoadError

\* ---- the objects tried ----
MaxItems == 2        \* children of a Tree, blocks of a File

CodecNames == {<<>>, <<97>>, <<98, 99>>}
CodecTimes == {Time(-1, 0), Time(0, 0), Time(5, 0), Time(5, 500000000)}
CodecMetas == [mtime : CodecTimes, atime : {Time(0, 0), Time(7, 0)},
               uid : {0, 12}, gid : {4}, mode : {493, 66029}]
CodecTags == {Sha256(<<U8(17)>>), Sha256(<<U8(34)>>)}

RECURSIVE SeqsUpTo(_, _)
SeqsUpTo(S, n) ==
    IF n = 0 THEN {<<>>}
    ELSE LET shorter == SeqsUpTo(S, n - 1)
         IN shorter \cup {Append(q, e) : q \in {t \in shorter : Len(t) = n - 1}, e \in S}

CodecObjects ==
    {Snapshot(t, r, p) : t \in CodecTimes, r \in CodecTags,
                         p \in {None} \cup {Some(g) : g \in CodecTags}}
    \cup {TreeObject(n, m, c) : n \in CodecNames, m \in CodecMetas,
                                c \in SeqsUpTo(CodecTags, MaxItems)}
    \cup {FileObject(n, m, b) : n \in CodecNames, m \in CodecMetas,
                                b \in SeqsUpTo(CodecTags, MaxItems)}
    \cup {SymlinkObject(n, m, t) : n \in CodecNames, m \in CodecMetas,
                                   t \in CodecNames}

CodecIdle ==
    /\ cx = None
    /\ cbytes = <<>>
    /\ ctag = None
    /\ cy = LoadError
    /\ cpc = "new"

CodecStart ==
    /\ cx \in {Some(o) : o \in CodecObjects}
    /\ cbytes = <<>>
    /\ ctag = None
    /\ cy = LoadError
    /\ cpc = "new"

\* m.save(&mut v) (metadata.rs:381-383)
CodecSave ==
    /\ cpc = "new"
    /\ cbytes' = SaveBytes(cx[1])
    /\ ctag' = Some(SaveTag(cx[1]))
    /\ cpc' = "saved"
    /\ UNCHANGED <<cx, cy, chunkVars, storeVars>>

\* MetaObject::load(&mut Cursor::new(v)) (metadata.rs:384)
CodecLoad ==
    /\ cpc = "saved"
    /\ cy' = Load(cbytes)
    /\ cpc' = "loaded"
    /\ UNCHANGED <<cx, cbytes, ctag, chunkVars, storeVars>>

CodecNext == CodecSave \/ CodecLoad

(***************************************************************************)
(*   THE SFTP OBJECT STORE (remote/ssh.rs) AND THE COMMIT (history.rs)     *)
(***************************************************************************)

\* The processes that work on the destination, and the node each runs on.
Procs == {1, 2}
Nodes == {"a", "b"}
NodeOf(p) == node[p]

\* A local file system with nothing on it that is backed up.
NoDisk == <<>>

\* Every process on node a.
OneNode == [p \in Procs |-> "a"]

\* Backend::host, the name under which the keystore files the data key.
Host == "host"

\* ---- bounds ----
MaxSnapshots == 2    \* new_snapshot calls that get as far as get_head's lock
MaxUpdates == 2      \* update_paths calls

\* A Result<T, E>.
Ok(v) == [ok |-> TRUE, val |-> v]
Err(e) == [ok |-> FALSE, val |-> e]

\* let v = ...; the value is computed once and named in what follows: x
\* ranges over the one value of v.
Bind(v, F(_)) == CHOOSE r \in {F(x) : x \in {v}} : TRUE

\* A thread that panics unwinds and ends the process.
Panic == Err("panic")

\* ---- the paths under the destination root ----
LockPath == <<"bkp.lock">>
HeadPath(n) == <<"heads", n>>

\* format!("{:02x}", tag[0]): the first byte of the tag names the shard.  The
\* digest being symbolic, the length of the hashed stream stands for that
\* byte: tags may share a shard or not.
Prefix(tag) == Len(tag.sha256) % 256
ShardPath(store, tag) == <<store, Prefix(tag)>>
ObjPath(store, tag) == <<store, Prefix(tag), tag>>

\* sess.stat(path).is_ok(), sess.open(path).is_ok()
Exists(path) == path \in DOMAIN files

Put(f, path, content) ==
    [q \in DOMAIN f \cup {path} |-> IF q = path THEN content ELSE f[q]]
Remove(f, path) == [q \in DOMAIN f \ {path} |-> f[q]]

\* A file that sess.create has made or truncated and nothing has been
\* written to.  A file holding one complete value v is <<v>>.
EmptyFile == <<>>

\* ---- keys (keys.rs) ----
\* new_data_key (keys.rs:522-542): 32 random bytes, here named after the
\* process that drew them.
DataKeyBy(p) == [data |-> <<"data", p>>, rname |-> Host]

\* Keystore::get_meta_key: the metadata key of the local node.
MetaKeyOf(n) == [data |-> <<"meta", n>>, nname |-> n]

\* MetaKey::write, DataKey::write (keys.rs:194-212, 265-283): the key in an
\* envelope sealed with the master key.
KeyEnvelope(k) == <<[sealed |-> k]>>

\* gen_nonce (keys.rs:135-143) draws six random bytes: two encryptions need not agree.
Nonces == {0, 1}

\* encrypt_inplace (keys.rs:146-170): nonce, then the plaintext sealed under
\* the key with the name as associated data.
encrypt_inplace(key, name, nonce, plain) ==
    <<[key |-> key, ad |-> name, nonce |-> nonce, pt |-> plain]>>

\* decrypt_inplace (keys.rs:96-116): split_at_mut(12) panics on a file
\* shorter than the nonce; open_in_place fails unless key and associated
\* data are those of the encryption.
decrypt_inplace(key, name, content) ==
    IF Len(content) = 0 THEN Panic
    ELSE IF content[1].key = key /\ content[1].ad = name
         THEN Ok(content[1].pt)
         ELSE Err("CryptoError")

\* Backend::data_key (ssh.rs:158-166) and Backend::meta_key (147-155)
data_key(p) == keystore[NodeOf(p)][1]
meta_key(p) == MetaKeyOf(NodeOf(p))

\* ssh.rs:359 and 266: self.data_key().encrypt(data) for a block,
\* self.meta_key().encrypt(v) for a metadata object.
Encrypted(p, store, nonce, plain) ==
    IF store = "blocks"
    THEN encrypt_inplace(data_key(p).data, data_key(p).rname, nonce, plain)
    ELSE encrypt_inplace(meta_key(p).data, meta_key(p).nname, nonce, plain)

\* ---- what the processes work with ----
BlockData == {<<1>>, <<2, 3>>}
BlockTag(d) == tag_from_digest(Sha256(Bytes(d)))
BlockTags == {BlockTag(d) : d \in BlockData}

StoreMeta == [mtime |-> Time(5, 0), atime |-> Time(7, 0), uid |-> 0, gid |-> 4,
              mode |-> 493]
TreeA == TreeObject(<<97>>, StoreMeta, <<>>)
TreeB == TreeObject(<<98, 99>>, StoreMeta, <<>>)
MetaObjects == {TreeA}
MetaTags == {SaveTag(obj) : obj \in MetaObjects}
Roots == {SaveTag(TreeA), SaveTag(TreeB)}

\* ---- the locals of a call ----
NoCall == [op |-> "none", store |-> "none", tag |-> None, body |-> None,
           root |-> None, parent |-> None]

\* A process between calls, or gone.
AtRest(p) == pc[p] \in {"start", "idle", "aborted"}

\* What ev holds after a step in which no call returned.
NoReturn == <<0, "none", None, Ok(None)>>

\* What the system clock may show when a snapshot is made.
ClockValues == {1, 2}

\* Under the serial schedule the calls of the processes do not overlap: a
\* process takes a step only while every other process is between calls.
Turn(p) == sched = "serial" => \A q \in Procs \ {p} : AtRest(q)

StoreStart ==
    /\ dirs = {}
    /\ files = <<>>
    /\ keystore = [n \in Nodes |-> None]
    /\ pc = [p \in Procs |-> "start"]
    /\ call = [p \in Procs |-> NoCall]
    /\ ev = NoReturn
    /\ written = {}
    /\ committed = {}
    /\ begun = 0
    /\ keygen = 0
    /\ upd = None
    /\ updates = 0
    /\ chk = None

\* The store left aside by the other specifications.
StoreIdle == StoreStart /\ sched = "any" /\ node = OneNode /\ disk = NoDisk

\* The call that returned in the last step: who called, what, with which
\* argument, and the result.
EvProc == ev[1]
EvOp == ev[2]
EvArg == ev[3]
EvRes == ev[4]

\* ---- Backend::lock and Backend::unlock ----
\* Whether an open with CREATE alone succeeds: always.
OpenShared(f, path) == TRUE

\* ssh.rs:172-175: open_mode(bkp.lock, CREATE | EXCLUSIVE) succeeds only if
\* the file does not exist.
OpenExclusive(f, path) == path \notin DOMAIN f

\* ssh.rs:169-184, lock: the file is created (the model records in it who
\* created it).
lock(f, p) == Put(f, LockPath, p)

\* ssh.rs:187-192, unlock, called by BackendLock::drop (94-98)
unlock(f) == Remove(f, LockPath)

\* ---- RemoteBackend::create (ssh.rs:406-456) ----
\* ssh.rs:441-452: the root exists; backend.lock()? returns the error, or
\* takes the lock.
create_lock(p) ==
    /\ pc[p] = "start"
    /\ Turn(p)
    /\ IF OpenExclusive(files, LockPath)
       THEN /\ files' = lock(files, p)
            /\ pc' = [pc EXCEPT ![p] = "create_locked"]
            /\ ev' = NoReturn
       ELSE /\ ev' = <<p, "create", None, Err("unable to lock")>>
            /\ UNCHANGED <<files, pc>>
    /\ UNCHANGED <<dirs, keystore, sched, node, keygen, call, written, committed,
                   begun, histVars, chunkVars,
                   codecVars>>

\* ssh.rs:452: the BackendLock that lock() returned is a temporary of the
\* statement `backend.lock()?;` and is dropped when the statement ends.
create_drop(p) ==
    /\ pc[p] = "create_locked"
    /\ Turn(p)
    /\ files' = unlock(files)
    /\ pc' = [pc EXCEPT ![p] = "initialize"]
    /\ ev' = NoReturn
    /\ UNCHANGED <<dirs, keystore, sched, node, keygen, call, written, committed,
                   begun, histVars, chunkVars,
                   codecVars>>

\* ssh.rs:104-144, initialize, and 453-455.
initialize(p) ==
    /\ pc[p] = "initialize"
    /\ Turn(p)
    /\ LET n == NodeOf(p)
           fresh == <<"metadata">> \notin dirs \/ <<"blocks">> \notin dirs
           dirs1 == IF fresh
                    THEN dirs \cup {<<"metadata">>, <<"metakeys">>,
                                    <<"blocks">>, <<"heads">>}
                    ELSE dirs
           files1 == IF fresh
                     THEN Put(files, <<"datakey">>, KeyEnvelope(DataKeyBy(p)))
                     ELSE files
           keys1 == IF fresh
                    THEN [keystore EXCEPT ![n] = Some(DataKeyBy(p))]
                    ELSE keystore
           keys2 == IF keys1[n] = None
                    THEN [keys1 EXCEPT ![n] = Some(files1[<<"datakey">>][1].sealed)]
                    ELSE keys1
           files2 == IF <<"metakeys", n>> \notin DOMAIN files1
                     THEN Put(files1, <<"metakeys", n>>, KeyEnvelope(MetaKeyOf(n)))
                     ELSE files1
       IN /\ dirs' = dirs1
          /\ files' = files2
          /\ keystore' = keys2
          /\ keygen' = IF fresh THEN keygen + 1 ELSE keygen
    /\ pc' = [pc EXCEPT ![p] = "idle"]
    /\ ev' = <<p, "create", None, Ok(None)>>
    /\ UNCHANGED <<sched, node, call, written, committed,
                   begun, histVars, chunkVars,
                   codecVars>>

\* ---- initialize (ssh.rs:104-144), request by request ----
\* A `?` inside initialize: create returns the error and no Backend.
InitFails(p, e) ==
    /\ pc' = [pc EXCEPT ![p] = "start"]
    /\ ev' = <<p, "create", None, Err(e)>>

InitGoes(p, to) ==
    /\ pc' = [pc EXCEPT ![p] = to]
    /\ ev' = NoReturn

\* ssh.rs:108: sess.stat(&meta_root).is_err() ||
init_stat_metadata(p) ==
    /\ pc[p] = "initialize"
    /\ Turn(p)
    /\ InitGoes(p, IF <<"metadata">> \in dirs THEN "init_stat_blocks"
                   ELSE "init_mkdir_metadata")
    /\ UNCHANGED <<dirs, files, keystore, sched, node, keygen, call, written,
                   committed, begun, histVars, chunkVars,
                   codecVars>>

\* ssh.rs:109: sess.stat(&self.root.join("blocks")).is_err()
init_stat_blocks(p) ==
    /\ pc[p] = "init_stat_blocks"
    /\ Turn(p)
    /\ InitGoes(p, IF <<"blocks">> \in dirs THEN "init_get_data_key"
                   ELSE "init_mkdir_metadata")
    /\ UNCHANGED <<dirs, files, keystore, sched, node, keygen, call, written,
                   committed, begun, histVars, chunkVars,
                   codecVars>>

\* Whether sess.mkdir succeeds although the directory is there: never.
MkdirOverExisting(ds, d) == FALSE

\* sess.mkdir(d, PERM_0755)? fails when d exists.
MkdirFails(ds, d) == d \in ds

Mkdir(p, at, d, to) ==
    /\ pc[p] = at
    /\ Turn(p)
    /\ IF MkdirFails(dirs, d)
       THEN /\ InitFails(p, "mkdir")
            /\ UNCHANGED dirs
       ELSE /\ dirs' = dirs \cup {d}
            /\ InitGoes(p, to)
    /\ UNCHANGED <<files, keystore, sched, node, keygen, call, written,
                   committed, begun, histVars, chunkVars,
                   codecVars>>

\* ssh.rs:112-115
init_mkdir_metadata(p) ==
    Mkdir(p, "init_mkdir_metadata", <<"metadata">>, "init_mkdir_metakeys")
init_mkdir_metakeys(p) ==
    Mkdir(p, "init_mkdir_metakeys", <<"metakeys">>, "init_mkdir_blocks")
init_mkdir_blocks(p) ==
    Mkdir(p, "init_mkdir_blocks", <<"blocks">>, "init_mkdir_heads")
init_mkdir_heads(p) ==
    Mkdir(p, "init_mkdir_heads", <<"heads">>, "init_new_data_key")

\* ssh.rs:118: self.keystore.new_data_key(&self.host)? draws a key and files
\* it in the local keystore (keys.rs:522-542).
init_new_data_key(p) ==
    /\ pc[p] = "init_new_data_key"
    /\ Turn(p)
    /\ keystore' = [keystore EXCEPT ![NodeOf(p)] = Some(DataKeyBy(p))]
    /\ keygen' = keygen + 1
    /\ InitGoes(p, "init_create_datakey")
    /\ UNCHANGED <<dirs, files, sched, node, call, written,
                   committed, begun, histVars, chunkVars,
                   codecVars>>

\* ssh.rs:120: sess.create(&self.root.join("datakey"))?
init_create_datakey(p) ==
    /\ pc[p] = "init_create_datakey"
    /\ Turn(p)
    /\ files' = Put(files, <<"datakey">>, EmptyFile)
    /\ InitGoes(p, "init_write_datakey")
    /\ UNCHANGED <<dirs, keystore, sched, node, keygen, call, written,
                   committed, begun, histVars, chunkVars,
                   codecVars>>

\* ssh.rs:121: data_key.write(&self.keystore, &mut dkey)?
init_write_datakey(p) ==
    /\ pc[p] = "init_write_datakey"
    /\ Turn(p)
    /\ files' = Put(files, <<"datakey">>, KeyEnvelope(DataKeyBy(p)))
    /\ InitGoes(p, "init_get_data_key")
    /\ UNCHANGED <<dirs, keystore, sched, node, keygen, call, written,
                   committed, begun, histVars, chunkVars,
                   codecVars>>

\* Keystore::store_data_key reads the envelope from the datakey file, opens
\* it with the master key and files the key in the local keystore; it fails
\* on a file that does not hold a whole envelope.
StoreDataKey(content) ==
    IF content = EmptyFile THEN Err("read") ELSE Ok(content[1].sealed)

\* ssh.rs:126-131: if the keystore has no data key for the host, the datakey
\* file is opened and the key taken from it.
init_get_data_key(p) ==
    /\ pc[p] = "init_get_data_key"
    /\ Turn(p)
    /\ IF keystore[NodeOf(p)] # None
       THEN /\ InitGoes(p, "init_stat_metakey")
            /\ UNCHANGED keystore
       ELSE IF <<"datakey">> \notin DOMAIN files
       THEN /\ InitFails(p, "open")
            /\ UNCHANGED keystore
       ELSE IF ~StoreDataKey(files[<<"datakey">>]).ok
       THEN /\ InitFails(p, "read")
            /\ UNCHANGED keystore
       ELSE /\ keystore' = [keystore EXCEPT ![NodeOf(p)] =
                                Some(StoreDataKey(files[<<"datakey">>]).val)]
            /\ InitGoes(p, "init_stat_metakey")
    /\ UNCHANGED <<dirs, files, sched, node, keygen, call, written,
                   committed, begun, histVars, chunkVars,
                   codecVars>>

\* ssh.rs:134-135: sess.stat(&our_meta).is_err(); if the file is there,
\* Ok(()) and create returns the Backend (ssh.rs:455).
init_stat_metakey(p) ==
    /\ pc[p] = "init_stat_metakey"
    /\ Turn(p)
    /\ IF <<"metakeys", NodeOf(p)>> \in DOMAIN files
       THEN /\ pc' = [pc EXCEPT ![p] = "idle"]
            /\ ev' = <<p, "create", None, Ok(None)>>
       ELSE InitGoes(p, "init_create_metakey")
    /\ UNCHANGED <<dirs, files, keystore, sched, node, keygen, call, written,
                   committed, begun, histVars, chunkVars,
                   codecVars>>

\* ssh.rs:138: sess.create(&our_meta)?
init_create_metakey(p) ==
    /\ pc[p] = "init_create_metakey"
    /\ Turn(p)
    /\ IF <<"metakeys">> \in dirs
       THEN /\ files' = Put(files, <<"metakeys", NodeOf(p)>>, EmptyFile)
            /\ InitGoes(p, "init_write_metakey")
       ELSE /\ InitFails(p, "create")
            /\ UNCHANGED files
    /\ UNCHANGED <<dirs, keystore, sched, node, keygen, call, written,
                   committed, begun, histVars, chunkVars,
                   codecVars>>

\* ssh.rs:139-143: meta_key.write(&self.keystore, &mut mkey)?; Ok(())
init_write_metakey(p) ==
    /\ pc[p] = "init_write_metakey"
    /\ Turn(p)
    /\ files' = Put(files, <<"metakeys", NodeOf(p)>>,
                    KeyEnvelope(MetaKeyOf(NodeOf(p))))
    /\ pc' = [pc EXCEPT ![p] = "idle"]
    /\ ev' = <<p, "create", None, Ok(None)>>
    /\ UNCHANGED <<dirs, keystore, sched, node, keygen, call, written,
                   committed, begun, histVars, chunkVars,
                   codecVars>>

\* The requests of initialize.
InitializeNext(p) ==
    \/ init_stat_metadata(p)
    \/ init_stat_blocks(p)
    \/ init_mkdir_metadata(p)
    \/ init_mkdir_metakeys(p)
    \/ init_mkdir_blocks(p)
    \/ init_mkdir_heads(p)
    \/ init_new_data_key(p)
    \/ init_create_datakey(p)
    \/ init_write_datakey(p)
    \/ init_get_data_key(p)
    \/ init_stat_metakey(p)
    \/ init_create_metakey(p)
    \/ init_write_metakey(p)

\* ---- write_block and write_meta ----
\* What a call that ends hands back: new_snapshot goes on to set_head when
\* its write_meta returned a tag (history.rs:305-308); every other call, and
\* new_snapshot on an error (`?`), returns to the caller.
Return(p, res) ==
    IF call[p].op = "new_snapshot" /\ call[p].store = "metadata" /\ res.ok
    THEN /\ pc' = [pc EXCEPT ![p] = "set_head"]
         /\ call' = [call EXCEPT ![p].store = "none"]
         /\ ev' = NoReturn
         /\ UNCHANGED <<written, committed>>
    ELSE /\ pc' = [pc EXCEPT ![p] = IF res = Panic THEN "aborted" ELSE "idle"]
         /\ call' = [call EXCEPT ![p] = NoCall]
         /\ ev' = <<p, call[p].op, 
                    IF call[p].op \in {"new_snapshot", "get_snapshot"}
                    THEN call[p].root ELSE call[p].body, res>>
         /\ written' = IF call[p].op = "write_block" /\ res.ok
                       THEN written \cup {<<p, res.val>>} ELSE written
         /\ committed' = IF call[p].op = "new_snapshot" /\ res.ok
                         THEN committed \cup {<<NodeOf(p), res.val>>} ELSE committed

\* ssh.rs:347-363 and 261-279: the tag is computed and the shard directory
\* looked up.  (The content is encrypted before that; the nonce it draws
\* shows only in the bytes written, and is drawn in write_all here.)
WriteBegin(p, op, store, tag, plain, root, parent) ==
    /\ call' = [call EXCEPT ![p] = [op |-> op, store |-> store, tag |-> Some(tag),
                                    body |-> Some(plain), root |-> root,
                                    parent |-> parent]]
    /\ pc' = [pc EXCEPT ![p] = IF ShardPath(store, tag) \in dirs
                               THEN "write_stat" ELSE "write_mkdir"]
    /\ ev' = NoReturn
    /\ UNCHANGED <<dirs, files, keystore, sched, node, keygen, written, committed,
                   begun, histVars, chunkVars,
                   codecVars>>

\* ssh.rs:347-363, write_block(data)
write_block(p, d) ==
    /\ pc[p] = "idle"
    /\ Turn(p)
    /\ WriteBegin(p, "write_block", "blocks", BlockTag(d), d, None, None)

\* ssh.rs:261-279, write_meta(obj)
write_meta(p, obj) ==
    /\ pc[p] = "idle"
    /\ Turn(p)
    /\ WriteBegin(p, "write_meta", "metadata", SaveTag(obj), SaveBytes(obj),
                  None, None)

\* ssh.rs:363 and 279: sess.mkdir(&path)?  fails when the directory has been
\* made since the stat.
write_mkdir(p) ==
    /\ pc[p] = "write_mkdir"
    /\ Turn(p)
    /\ LET shard == ShardPath(call[p].store, call[p].tag[1])
       IN IF shard \in dirs
          THEN /\ Return(p, Err("mkdir"))
               /\ UNCHANGED dirs
          ELSE /\ dirs' = dirs \cup {shard}
               /\ pc' = [pc EXCEPT ![p] = "write_stat"]
               /\ ev' = NoReturn
               /\ UNCHANGED <<call, written, committed>>
    /\ UNCHANGED <<files, keystore, sched, node, keygen,
                   begun, histVars, chunkVars,
                   codecVars>>

\* Whether the write is over once the file is found to exist.
AlwaysRewrite(f, path) == FALSE

ShortCircuit(f, path) == path \in DOMAIN f

\* ssh.rs:366-367 and 282-283: short-circuit if it's already stored.
write_stat(p) ==
    /\ pc[p] = "write_stat"
    /\ Turn(p)
    /\ IF ShortCircuit(files, ObjPath(call[p].store, call[p].tag[1]))
       THEN Return(p, Ok(call[p].tag[1]))
       ELSE /\ pc' = [pc EXCEPT ![p] = "write_create"]
            /\ ev' = NoReturn
            /\ UNCHANGED <<call, written, committed>>
    /\ UNCHANGED <<dirs, files, keystore, sched, node, keygen,
                   begun, histVars, chunkVars,
                   codecVars>>

\* ssh.rs:370 and 286: sess.create(&path) makes the file, or truncates it.
write_create(p) ==
    /\ pc[p] = "write_create"
    /\ Turn(p)
    /\ files' = Put(files, ObjPath(call[p].store, call[p].tag[1]), EmptyFile)
    /\ pc' = [pc EXCEPT ![p] = "write_all"]
    /\ ev' = NoReturn
    /\ UNCHANGED <<dirs, keystore, sched, node, keygen, call, written, committed,
                   begun, histVars, chunkVars,
                   codecVars>>

\* ssh.rs:371-372 and 287-288: f.write_all(&encrypted)?; Ok(tag)
write_all(p) ==
    /\ pc[p] = "write_all"
    /\ Turn(p)
    /\ \E nonce \in Nonces :
        files' = Put(files, ObjPath(call[p].store, call[p].tag[1]),
                     Encrypted(p, call[p].store, nonce, call[p].body[1]))
    /\ Return(p, Ok(call[p].tag[1]))
    /\ UNCHANGED <<dirs, keystore, sched, node, keygen,
                   begun, histVars, chunkVars,
                   codecVars>>

\* ---- read_block and read_meta ----
\* ssh.rs:331-345: open, read_to_end, decrypt.
ReadBlockIn(f, p, tag) ==
    IF ObjPath("blocks", tag) \notin DOMAIN f THEN Err("open")
    ELSE decrypt_inplace(data_key(p).data, data_key(p).rname,
                         f[ObjPath("blocks", tag)])

ReadBlockResult(p, tag) == ReadBlockIn(files, p, tag)

read_block(p, tag) ==
    /\ pc[p] = "idle"
    /\ Turn(p)
    /\ LET res == ReadBlockResult(p, tag)
       IN /\ pc' = [pc EXCEPT ![p] = IF res = Panic THEN "aborted" ELSE "idle"]
          /\ ev' = <<p, "read_block", Some(tag), res>>
    /\ UNCHANGED <<dirs, files, keystore, sched, node, keygen, call, written, committed,
                   begun, histVars, chunkVars,
                   codecVars>>

\* ssh.rs:240-259: open, read_to_end, decrypt, MetaObject::load.
ReadMetaIn(f, p, tag) ==
    IF ObjPath("metadata", tag) \notin DOMAIN f THEN Err("open")
    ELSE Bind(decrypt_inplace(meta_key(p).data, meta_key(p).nname,
                              f[ObjPath("metadata", tag)]),
              LAMBDA plain :
                IF ~plain.ok THEN plain
                ELSE Bind(Load(plain.val),
                          LAMBDA got : IF got.ok THEN Ok(got.obj) ELSE Err("load")))

ReadMetaResult(p, tag) == ReadMetaIn(files, p, tag)

read_meta(p, tag) ==
    /\ pc[p] = "idle"
    /\ Turn(p)
    /\ LET res == ReadMetaResult(p, tag)
       IN /\ pc' = [pc EXCEPT ![p] = IF res = Panic THEN "aborted" ELSE "idle"]
          /\ ev' = <<p, "read_meta", Some(tag), res>>
    /\ UNCHANGED <<dirs, files, keystore, sched, node, keygen, call, written, committed,
                   begun, histVars, chunkVars,
                   codecVars>>

\* ---- list_meta (ssh.rs:196-238) ----
\* metadata.rs:15: an identity tag has as many bytes as a SHA-256 digest.
IDENTITY_LEN == 32

\* ssh.rs:30
TAG_LENGTH == 32

\* The length of the name of the file of a tag: write_meta names the file
\* tag.as_ref().to_hex() (ssh.rs:271), two hex digits for each byte
\* (util.rs:12-19).
HexLen(tag) == 2 * IDENTITY_LEN

\* ssh.rs:220-227: the digits are taken two by two into a tag of TAG_LENGTH
\* bytes.  The name of a whole tag gives the tag back; a shorter name fills
\* the front of the tag only.
FromHex(tag) == IF HexLen(tag) = 2 * TAG_LENGTH THEN tag ELSE [front |-> tag]

\* ssh.rs:196-237: the prefix directories of metadata are read, and the
\* files in them whose names are hex digits, TAG_LENGTH of them (215-218);
\* other names are passed over.
ListMetaResult(ds, f) ==
    IF <<"metadata">> \notin ds THEN Err("readdir")
    ELSE Ok({FromHex(q[3]) :
                q \in {r \in DOMAIN f : /\ r[1] = "metadata"
                                        /\ Len(r) = 3
                                        /\ HexLen(r[3]) = TAG_LENGTH}})

list_meta(p) ==
    /\ pc[p] = "idle"
    /\ Turn(p)
    /\ ev' = <<p, "list_meta", None, ListMetaResult(dirs, files)>>
    /\ UNCHANGED <<dirs, files, keystore, sched, node, keygen, pc, call, written,
                   committed, begun, histVars, chunkVars,
                   codecVars>>

\* ---- get_head (ssh.rs:292-311) under get_snapshot (history.rs:279-291) ----
\* ssh.rs:300: let dir_lock = self.lock()?;
GetHeadLock(p, op, root) ==
    /\ pc[p] = "idle"
    /\ Turn(p)
    /\ IF OpenExclusive(files, LockPath)
       THEN /\ files' = lock(files, p)
            /\ pc' = [pc EXCEPT ![p] = "get_head"]
            /\ call' = [call EXCEPT ![p] = [NoCall EXCEPT !.op = op, !.root = root]]
            /\ ev' = NoReturn
       ELSE /\ ev' = <<p, op, root, Err("unable to lock")>>
            /\ UNCHANGED <<files, pc, call>>
    /\ UNCHANGED <<dirs, keystore, sched, node, keygen, written, committed, histVars, chunkVars,
                   codecVars>>

\* history.rs:279, get_snapshot()
get_snapshot(p) == GetHeadLock(p, "get_snapshot", None) /\ UNCHANGED begun

\* history.rs:298-299, new_snapshot(root) up to the lock of get_head
new_snapshot(p, root) ==
    /\ begun < MaxSnapshots
    /\ GetHeadLock(p, "new_snapshot", Some(root))
    /\ begun' = IF OpenExclusive(files, LockPath) THEN begun + 1 ELSE begun

\* history.rs:300-302: the parent of the new snapshot is the ident() of the
\* snapshot that get_snapshot returned, if it returned one.
OriginAlways(snap) == None

ParentOf(snap) == IF snap = None THEN None ELSE Some(SaveTag(snap[1]))

\* What get_snapshot makes of the result of get_head (history.rs:280-290),
\* and new_snapshot of that (299-302).
AfterGetHead(p, res) ==
    IF ~res.ok
    THEN Return(p, res)
    ELSE IF res.val # None /\ res.val[1].kind # "Snapshot"
    THEN Return(p, Err("NoValidSnapshot"))
    ELSE IF call[p].op = "get_snapshot"
    THEN Return(p, res)
    ELSE /\ pc' = [pc EXCEPT ![p] = "new_snapshot"]
         /\ call' = [call EXCEPT ![p].parent = ParentOf(res.val)]
         /\ ev' = NoReturn
         /\ UNCHANGED <<written, committed>>

\* ssh.rs:301-306: the head file is opened and read, and the block ends: the
\* lock is dropped.  No file: Ok(None).  A file shorter than a tag:
\* read_exact fails.
get_head_read(p) ==
    /\ pc[p] = "get_head"
    /\ Turn(p)
    /\ files' = unlock(files)
    /\ IF ~Exists(HeadPath(NodeOf(p)))
       THEN AfterGetHead(p, Ok(None))
       ELSE IF files[HeadPath(NodeOf(p))] = EmptyFile
       THEN Return(p, Err("read_exact"))
       ELSE /\ pc' = [pc EXCEPT ![p] = "get_head_meta"]
            /\ call' = [call EXCEPT ![p].tag = files[HeadPath(NodeOf(p))]]
            /\ ev' = NoReturn
            /\ UNCHANGED <<written, committed>>
    /\ UNCHANGED <<dirs, keystore, sched, node, keygen,
                   begun, histVars, chunkVars,
                   codecVars>>

\* ssh.rs:310: self.read_meta(&ident).map(Some)
get_head_meta(p) ==
    /\ pc[p] = "get_head_meta"
    /\ Turn(p)
    /\ LET res == ReadMetaResult(p, call[p].tag[1])
       IN AfterGetHead(p, IF res.ok THEN Ok(Some(res.val)) ELSE res)
    /\ UNCHANGED <<dirs, files, keystore, sched, node, keygen,
                   begun, histVars, chunkVars,
                   codecVars>>

\* history.rs:300-305: MetaObject::snapshot(root, parent) reads the system
\* clock, in whole seconds (metadata.rs:225-234); the object is handed to
\* write_meta.
new_snapshot_store(p) ==
    /\ pc[p] = "new_snapshot"
    /\ Turn(p)
    /\ \E now \in ClockValues :
        LET obj == Snapshot(Time(now, 0), call[p].root[1], call[p].parent)
        IN WriteBegin(p, "new_snapshot", "metadata", SaveTag(obj), SaveBytes(obj),
                      call[p].root, call[p].parent)

\* ---- set_head (ssh.rs:313-327) ----
\* What a set_head that finds the lock taken leaves of the files.
WriteHeadAnyway(f, p, tag) == Put(f, HeadPath(NodeOf(p)), <<tag>>)

Contended(f, p, tag) == f

\* ssh.rs:320: let dir_lock = self.lock()?;
set_head_lock(p) ==
    /\ pc[p] = "set_head"
    /\ Turn(p)
    /\ IF OpenExclusive(files, LockPath)
       THEN /\ files' = lock(files, p)
            /\ pc' = [pc EXCEPT ![p] = "set_head_write"]
            /\ ev' = NoReturn
            /\ UNCHANGED <<call, written, committed>>
       ELSE /\ files' = Contended(files, p, call[p].tag[1])
            /\ Return(p, Err("unable to lock"))
    /\ UNCHANGED <<dirs, keystore, sched, node, keygen,
                   begun, histVars, chunkVars,
                   codecVars>>

\* ssh.rs:321-326: the head file is created and the tag written into it; the
\* block ends and the lock is dropped; Ok(()).  history.rs:309: Ok(ident).
set_head_write(p) ==
    /\ pc[p] = "set_head_write"
    /\ Turn(p)
    /\ files' = unlock(Put(files, HeadPath(NodeOf(p)), call[p].tag))
    /\ Return(p, Ok(call[p].tag[1]))
    /\ UNCHANGED <<dirs, keystore, sched, node, keygen,
                   begun, histVars, chunkVars,
                   codecVars>>

\* ---- I/O failures ----
\* ssh.rs:288 and 372: f.write_all(..)? returns the error of a write that
\* failed; the file that sess.create made stays as the failed write left it.
write_all_fails(p) ==
    /\ pc[p] = "write_all"
    /\ Turn(p)
    /\ Return(p, Err("io"))
    /\ UNCHANGED <<dirs, files, keystore, sched, node, keygen,
                   begun, histVars, chunkVars,
                   codecVars>>

\* ssh.rs:322: sess.create(&path)? fails; the block is left and the lock
\* dropped.
set_head_create_fails(p) ==
    /\ pc[p] = "set_head_write"
    /\ Turn(p)
    /\ files' = unlock(files)
    /\ Return(p, Err("io"))
    /\ UNCHANGED <<dirs, keystore, sched, node, keygen,
                   begun, histVars, chunkVars,
                   codecVars>>

\* A set_head that returns the error of the write with the lock left behind.
SetHeadWriteFailsLocked(p) ==
    /\ pc[p] = "set_head_write"
    /\ Turn(p)
    /\ files' = Put(files, HeadPath(NodeOf(p)), EmptyFile)
    /\ Return(p, Err("io"))
    /\ UNCHANGED <<dirs, keystore, sched, node, keygen,
                   begun, histVars, chunkVars,
                   codecVars>>

\* ssh.rs:322-323: sess.create(&path) has made or truncated the head file and
\* f.write_all(tag)? fails; the block is left and the lock dropped.
set_head_write_fails(p) ==
    /\ pc[p] = "set_head_write"
    /\ Turn(p)
    /\ files' = unlock(Put(files, HeadPath(NodeOf(p)), EmptyFile))
    /\ Return(p, Err("io"))
    /\ UNCHANGED <<dirs, keystore, sched, node, keygen,
                   begun, histVars, chunkVars,
                   codecVars>>

\* The requests that may fail once the call has begun.
FaultNext(p) ==
    \/ write_all_fails(p)
    \/ set_head_create_fails(p)
    \/ set_head_write_fails(p)

(***************************************************************************)
(*                    THE HISTORY LAYER (history.rs)                       *)
(***************************************************************************)

\* ---- the local file system ----
\* A path is the sequence of its components below /, a component the
\* sequence of its bytes.
NameA == <<97>>
NameX == <<120>>
NameY == <<121>>
PathA == <<NameA>>
PathAX == <<NameA, NameX>>
PathAY == <<NameA, NameY>>

\* What fs::symlink_metadata gives (metadata.rs:94-103).
FsMeta(mtime, mode) ==
    [mtime |-> Time(mtime, 0), atime |-> Time(7, 0), uid |-> 0, gid |-> 4,
     mode |-> mode]

DirEntry(mtime) == [kind |-> "dir", meta |-> FsMeta(mtime, 16877), data |-> <<>>]
FileEntry(mtime, d) == [kind |-> "file", meta |-> FsMeta(mtime, 33188), data |-> d]
LinkEntry(mtime, t) == [kind |-> "symlink", meta |-> FsMeta(mtime, 41471), data |-> t]
\* a named pipe: neither is_file, is_dir nor is_symlink
FifoEntry(mtime) == [kind |-> "fifo", meta |-> FsMeta(mtime, 4516), data |-> <<>>]

\* /a/x; then with the file /a/y made; or with the symlink /a/y to x made.
DiskOne == (PathA :> DirEntry(5)) @@ (PathAX :> FileEntry(5, <<1>>))
DiskNew == (PathA :> DirEntry(6)) @@ (PathAX :> FileEntry(5, <<1>>))
                @@ (PathAY :> FileEntry(6, <<2, 3>>))
DiskLink == (PathA :> DirEntry(6)) @@ (PathAX :> FileEntry(5, <<1>>))
                @@ (PathAY :> LinkEntry(6, NameX))
DiskStates == {DiskOne, DiskNew}
\* /a/x and the named pipe /a/y
DiskFifo == (PathA :> DirEntry(6)) @@ (PathAX :> FileEntry(5, <<1>>))
                @@ (PathAY :> FifoEntry(6))
\* /a/x and /a/y, the file y written anew with the same bytes
DiskTouched == (PathA :> DirEntry(8)) @@ (PathAX :> FileEntry(5, <<1>>))
                @@ (PathAY :> FileEntry(8, <<2, 3>>))

\* Path::starts_with, Path::parent
StartsWith(q, x) == Len(x) <= Len(q) /\ SubSeq(q, 1, Len(x)) = x
Parent(q) == SubSeq(q, 1, Len(q) - 1)

\* The paths handed to update_paths, the shallowest first.
PathOrder == <<PathA, PathAX, PathAY>>
Paths == {PathA, PathAX, PathAY}

\* The sets of paths of d that a call of update_paths may be given.
PathSets(d) == (SUBSET DOMAIN d) \ {{}}
InOrder(P) == SelectSeq(PathOrder, LAMBDA q : q \in P)

\* history.rs:553-559: a path under a path already kept is dropped.
RECURSIVE Prune(_, _)
Prune(paths, result) ==
    IF paths = <<>> THEN result
    ELSE Prune(Tail(paths),
               IF \E i \in 1..Len(result) : StartsWith(Head(paths), result[i])
               THEN result
               ELSE Append(result, Head(paths)))

\* history.rs:546-562: the paths of update_paths, sorted by depth and pruned.
Retained(P) == Prune(InOrder(P), <<>>)

\* ---- the store as a call goes through it ----
\* gen_nonce (keys.rs:135-143) draws a nonce for every file written.  No call
\* of the history layer reads a nonce back but to decrypt the file it stands
\* in (keys.rs:96-116), so one value stands here for all that are drawn.
CallNonce == 0

\* A call of the history layer makes its backend calls one after the other;
\* St is what the destination holds between two of them.
St(ds, f) == [dirs |-> ds, files |-> f]

\* What a write_block or write_meta that runs alone and meets no failure
\* makes of the destination (ssh.rs:261-290, 347-375): the shard directory
\* is made if it is not there; the file is written unless it exists.
WriteTo(st, p, store, tag, plain, nonce) ==
    IF ShortCircuit(st.files, ObjPath(store, tag))
    THEN St(st.dirs \cup {ShardPath(store, tag)}, st.files)
    ELSE St(st.dirs \cup {ShardPath(store, tag)},
            Put(st.files, ObjPath(store, tag), Encrypted(p, store, nonce, plain)))

WriteMetaTo(st, p, obj, nonce) ==
    WriteTo(st, p, "metadata", SaveTag(obj), SaveBytes(obj), nonce)

\* The chunks that f.bytes().chunks() yields for a file that is read without
\* error (chunking.rs:24-61).
RECURSIVE ChunksOf(_, _, _)
ChunksOf(bytes, buf, s) ==
    IF bytes = <<>>
    THEN IF EofResult(buf).kind = "chunk" THEN <<buf>> ELSE <<>>
    ELSE LET pushed == Append(buf, Head(bytes))
             s2 == SumAfterPush(s, pushed, Head(bytes))
         IN IF IsBoundary(s2)
            THEN <<pushed>> \o ChunksOf(Tail(bytes), <<>>, InitialSum)
            ELSE ChunksOf(Tail(bytes), pushed, s2)

\* history.rs:389-392: every chunk is written as a block.
RECURSIVE WriteBlocksTo(_, _, _, _)
WriteBlocksTo(st, p, chunks, nonce) ==
    IF chunks = <<>> THEN st
    ELSE WriteBlocksTo(WriteTo(st, p, "blocks", BlockTag(Head(chunks)),
                               Head(chunks), nonce),
                       p, Tail(chunks), nonce)

\* fs::read_dir: the entries of a directory, in the order of PathOrder.
Entries(d, q) ==
    SelectSeq(PathOrder, LAMBDA r : r \in DOMAIN d /\ Len(r) = Len(q) + 1
                                        /\ StartsWith(r, q))

\* history.rs:374-416, store_path: the object made of a path, and the
\* destination after it and all under it has been written.
RECURSIVE StoredObject(_, _)
StoredObject(d, q) ==
    CASE d[q].kind = "file" ->
            Bind(ChunksOf(d[q].data, <<>>, InitialSum),
                 LAMBDA chunks :
                    FileObject(q[Len(q)], d[q].meta,
                               [i \in 1..Len(chunks) |-> BlockTag(chunks[i])]))
      [] d[q].kind = "dir" ->
            Bind(Entries(d, q),
                 LAMBDA es :
                    TreeObject(q[Len(q)], d[q].meta,
                               [i \in 1..Len(es) |-> SaveTag(StoredObject(d, es[i]))]))
      [] d[q].kind = "symlink" -> SymlinkObject(q[Len(q)], d[q].meta, d[q].data)

\* history.rs:417-419: store_path comes to unimplemented!() at an entry that
\* is neither a file, a directory nor a symlink, at the path itself or, for
\* a directory, at an entry below it.
RECURSIVE StorePanics(_, _)
StorePanics(d, q) ==
    \/ d[q].kind \notin {"file", "dir", "symlink"}
    \/ /\ d[q].kind = "dir"
       /\ \E i \in 1..Len(Entries(d, q)) : StorePanics(d, Entries(d, q)[i])

\* The destination after store_path(q): all under q is written, then the
\* object of q; a call that panics has written what comes before the entry
\* it panics at.
RECURSIVE StorePath(_, _, _, _, _)
RECURSIVE StoreAll(_, _, _, _, _)
StorePath(st, p, d, q, nonce) ==
    IF StorePanics(d, q)
    THEN IF d[q].kind = "dir" THEN StoreAll(st, p, d, Entries(d, q), nonce) ELSE st
    ELSE WriteMetaTo(
            CASE d[q].kind = "file" ->
                    WriteBlocksTo(st, p, ChunksOf(d[q].data, <<>>, InitialSum), nonce)
              [] d[q].kind = "dir" -> StoreAll(st, p, d, Entries(d, q), nonce)
              [] d[q].kind = "symlink" -> st,
            p, StoredObject(d, q), nonce)

\* The paths of a list stored one after the other, as far as the first
\* that panics.
StoreAll(st, p, d, qs, nonce) ==
    IF qs = <<>> THEN st
    ELSE IF StorePanics(d, Head(qs)) THEN StorePath(st, p, d, Head(qs), nonce)
    ELSE StoreAll(StorePath(st, p, d, Head(qs), nonce), p, d, Tail(qs), nonce)

\* ---- get_path (history.rs:317-368) ----
\* Backend::get_head run alone (ssh.rs:292-311): what the stepwise
\* GetHeadLock, get_head_read and get_head_meta come to.
HeadResult(f, p) ==
    IF ~OpenExclusive(f, LockPath) THEN Err("unable to lock")
    ELSE IF HeadPath(NodeOf(p)) \notin DOMAIN f THEN Ok(None)
    ELSE IF f[HeadPath(NodeOf(p))] = EmptyFile THEN Err("read_exact")
    ELSE Bind(ReadMetaIn(f, p, f[HeadPath(NodeOf(p))][1]),
              LAMBDA r : IF r.ok THEN Ok(Some(r.val)) ELSE r)

\* history.rs:279-291, get_snapshot
SnapshotResult(f, p) ==
    Bind(HeadResult(f, p),
         LAMBDA r : IF ~r.ok \/ r.val = None THEN r
                    ELSE IF r.val[1].kind = "Snapshot" THEN r
                    ELSE Err("NoValidSnapshot"))

\* metadata.rs:236-243, MetaObject::name
NameOf(obj) == IF obj.kind = "Snapshot" THEN None ELSE Some(obj.name)

\* Component::RootDir, the first component of an absolute path.
RootDir == <<>>
\* Component::CurDir "." and Component::ParentDir ".." (history.rs:340-341)
CurDir == <<46>>
ParentDir == <<46, 46>>

MinOf(S) == CHOOSE i \in S : \A j \in S : i <= j

\* history.rs:342-358: the children of a Tree are read, all of them, and the
\* first of the name is taken.
ChildNamed(kids, reads, name) ==
    Bind({i \in 1..Len(kids) : ~reads[i].ok},
         LAMBDA bad :
            IF bad # {} THEN reads[MinOf(bad)]
            ELSE Bind({i \in 1..Len(kids) : NameOf(reads[i].val) = Some(name)},
                      LAMBDA hits : IF hits = {} THEN Ok(None)
                                    ELSE Ok(Some(kids[MinOf(hits)]))))

\* history.rs:326-365: the loop over the components of the path, from the
\* object `current` on, and the read of the object arrived at.
RECURSIVE Descend(_, _, _, _)
Descend(f, p, current, comps) ==
    Bind(ReadMetaIn(f, p, current),
         LAMBDA cur :
            IF ~cur.ok THEN cur
            ELSE IF comps = <<>> THEN Ok(Some(cur.val))
            ELSE IF cur.val.kind # "Tree" THEN Err("IntegrityError")
            ELSE IF Head(comps) = RootDir THEN Descend(f, p, current, Tail(comps))
            ELSE IF Head(comps) \in {CurDir, ParentDir} THEN Panic
            ELSE Bind(ChildNamed(cur.val.children,
                                 [i \in 1..Len(cur.val.children) |->
                                    ReadMetaIn(f, p, cur.val.children[i])],
                                 Head(comps)),
                      LAMBDA next :
                        IF ~next.ok \/ next.val = None THEN next
                        ELSE Descend(f, p, next.val[1], Tail(comps))))

\* history.rs:317-368, get_path(path)
GetPath(f, p, q) ==
    Bind(SnapshotResult(f, p),
         LAMBDA snap : IF ~snap.ok \/ snap.val = None THEN snap
                       ELSE Descend(f, p, snap.val[1].root, <<RootDir>> \o q))

\* ---- update_paths (history.rs:437-571) ----
\* What a call that writes returns: whether it went through, its value, and
\* the destination as it has left it.
Done(st, val) == [ok |-> TRUE, val |-> val, st |-> st]
Failed(st, e) == [ok |-> FALSE, val |-> e, st |-> st]

\* metadata.rs:82-91, FSMetadata::default at clock reading now
DefaultMeta(now) ==
    [mtime |-> Time(now, 0), atime |-> Time(now, 0), uid |-> 0, gid |-> 0,
     mode |-> 493]

\* A Tree is written and its tag returned.
WriteTree(st, p, tree, nonce) == Done(WriteMetaTo(st, p, tree, nonce), SaveTag(tree))

\* history.rs:437-463, build_tree_skeleton(root, objects): `kids` are the
\* objects still to be gone through, `acc` the children gathered.
RECURSIVE SkeletonKids(_, _, _, _, _, _, _, _)
RECURSIVE build_tree_skeleton(_, _, _, _, _, _)
SkeletonKids(st, p, root, nv, now, nonce, kids, acc) ==
    IF kids = <<>> THEN Done(st, acc)
    ELSE IF ~StartsWith(Head(kids).path, root)
    THEN SkeletonKids(st, p, root, nv, now, nonce, Tail(kids), acc)
    ELSE IF Parent(Head(kids).path) = root
    THEN SkeletonKids(st, p, root, nv, now, nonce, Tail(kids),
                      Append(acc, Head(kids).tag))
    ELSE Bind(build_tree_skeleton(
                    st, p, Append(root, Head(kids).path[Len(root) + 1]),
                    nv, now, nonce),
              LAMBDA sub :
                SkeletonKids(sub.st, p, root, nv, now, nonce, Tail(kids),
                             Append(acc, sub.val)))

build_tree_skeleton(st, p, root, nv, now, nonce) ==
    Bind(SkeletonKids(st, p, root, nv, now, nonce, nv, <<>>),
         LAMBDA kids :
            WriteTree(kids.st, p,
                      TreeObject(IF root = <<>> THEN <<>> ELSE root[Len(root)],
                                 DefaultMeta(now), kids.val),
                      nonce))

\* history.rs:472-530, update_tree(root, new_vals)
RECURSIVE UpdateKids(_, _, _, _, _, _, _, _)
RECURSIVE update_tree(_, _, _, _, _, _)
\* The children gone through, but those under which nothing is updated left
\* out of the rewritten Tree.
UpdateKidsOnlyNew(st, p, root, nv, now, nonce, kids, acc) ==
    IF kids = <<>> THEN Done(st, acc)
    ELSE Bind(ReadMetaIn(st.files, p, Head(kids)),
              LAMBDA obj :
                IF ~obj.ok THEN Failed(st, obj.val)
                ELSE IF obj.val.kind = "Snapshot" THEN Failed(st, "IntegrityError")
                ELSE IF ~\E i \in 1..Len(nv) :
                            StartsWith(nv[i].path, Append(root, obj.val.name))
                THEN UpdateKids(st, p, root, nv, now, nonce, Tail(kids), acc)
                ELSE Bind(update_tree(st, p, Append(root, obj.val.name), nv, now,
                                      nonce),
                          LAMBDA r :
                            IF ~r.ok THEN r
                            ELSE UpdateKids(r.st, p, root, nv, now, nonce,
                                            Tail(kids), Append(acc, r.val))))

UpdateKids(st, p, root, nv, now, nonce, kids, acc) ==
    IF kids = <<>> THEN Done(st, acc)
    ELSE Bind(ReadMetaIn(st.files, p, Head(kids)),
              LAMBDA obj :
                IF ~obj.ok THEN Failed(st, obj.val)
                ELSE IF obj.val.kind = "Snapshot" THEN Failed(st, "IntegrityError")
                ELSE Bind(update_tree(st, p, Append(root, obj.val.name), nv, now,
                                      nonce),
                          LAMBDA r :
                            IF ~r.ok THEN r
                            ELSE UpdateKids(r.st, p, root, nv, now, nonce,
                                            Tail(kids), Append(acc, r.val))))

\* The same, but for a rewritten Tree that is given the metadata of a new
\* directory.
UpdateOldAnew(st, p, root, nv, now, nonce, old) ==
    IF \E i \in 1..Len(nv) : StartsWith(nv[i].path, root)
    THEN IF old.kind = "Tree"
         THEN Bind(UpdateKids(st, p, root, nv, now, nonce, old.children, <<>>),
                   LAMBDA kids :
                      IF ~kids.ok THEN kids
                      ELSE WriteTree(kids.st, p,
                                     TreeObject(old.name, DefaultMeta(now), kids.val),
                                     nonce))
         ELSE Failed(st, "IntegrityError")
    ELSE Done(st, SaveTag(old))

\* history.rs:496-529: the path is in the prior snapshot as `old`.
UpdateOld(st, p, root, nv, now, nonce, old) ==
    IF \E i \in 1..Len(nv) : StartsWith(nv[i].path, root)
    THEN IF old.kind = "Tree"
         THEN Bind(UpdateKids(st, p, root, nv, now, nonce, old.children, <<>>),
                   LAMBDA kids :
                      IF ~kids.ok THEN kids
                      ELSE WriteTree(kids.st, p, [old EXCEPT !.children = kids.val],
                                     nonce))
         ELSE Failed(st, "IntegrityError")
    ELSE Done(st, SaveTag(old))

update_tree(st, p, root, nv, now, nonce) ==
    IF \E i \in 1..Len(nv) : nv[i].path = root
    THEN Done(st, nv[MinOf({i \in 1..Len(nv) : nv[i].path = root})].tag)
    ELSE Bind(GetPath(st.files, p, root),
              LAMBDA old :
                IF ~old.ok THEN Failed(st, old.val)
                ELSE IF old.val = None
                THEN build_tree_skeleton(st, p, root, nv, now, nonce)
                ELSE UpdateOld(st, p, root, nv, now, nonce, old.val[1]))

\* Path::canonicalize (history.rs:547): a symlink is followed; Err for a path
\* that leads to nothing.
canonicalize(d, q) ==
    Bind(IF d[q].kind = "symlink" THEN Append(Parent(q), d[q].data) ELSE q,
         LAMBDA to : IF to \in DOMAIN d THEN Ok(to) ELSE Err("NotFound"))

Canonicalized(d, P) == {canonicalize(d, q).val : q \in P}

\* history.rs:562-566: the (path, tag) pairs of the paths stored.
PathCopies(d, kept) ==
    [i \in 1..Len(kept) |->
        [path |-> kept[i], tag |-> SaveTag(StoredObject(d, kept[i]))]]

\* history.rs:537-571, update_paths(paths): the paths are pruned, each is
\* stored, and the new root tree is built from /.  d is the local file system
\* as the call finds it.
UpdatePaths(st, p, d, P, now, nonce) ==
    Bind(Retained(Canonicalized(d, P)),
         LAMBDA kept :
            update_tree(StoreAll(st, p, d, kept, nonce), p, <<>>,
                        PathCopies(d, kept), now, nonce))

update_paths(p, d, P) ==
    /\ pc[p] = "idle"
    /\ Turn(p)
    /\ updates < MaxUpdates
    /\ updates' = updates + 1
    /\ disk' = d
    /\ P \subseteq DOMAIN d
    /\ IF \E q \in P : ~canonicalize(d, q).ok
       THEN \* history.rs:547: .unwrap() of the Err
            /\ pc' = [pc EXCEPT ![p] = "aborted"]
            /\ ev' = <<p, "update_paths", P, Panic>>
            /\ UNCHANGED <<dirs, files, upd>>
       ELSE IF \E q \in Canonicalized(d, P) : StorePanics(d, q)
       THEN \* history.rs:562-566 and 417-419: unimplemented!() in store_path
            /\ \E st \in {StoreAll(St(dirs, files), p, d,
                                   Retained(Canonicalized(d, P)), CallNonce)} :
                  /\ dirs' = st.dirs
                  /\ files' = st.files
            /\ pc' = [pc EXCEPT ![p] = "aborted"]
            /\ ev' = <<p, "update_paths", P, Panic>>
            /\ UNCHANGED upd
       ELSE \E now \in ClockValues :
            \E r \in {UpdatePaths(St(dirs, files), p, d, P, now, CallNonce)} :
               /\ dirs' = r.st.dirs
               /\ files' = r.st.files
               /\ upd' = IF r.ok
                         THEN Some([root |-> r.val, disk |-> d,
                                    paths |-> Retained(Canonicalized(d, P)),
                                    snap |-> None])
                         ELSE upd
               /\ ev' = <<p, "update_paths", P,
                          IF r.ok THEN Ok(r.val) ELSE Err(r.val)>>
               /\ UNCHANGED pc
    /\ UNCHANGED <<keystore, sched, node, keygen, call, written, committed,
                   begun, chk, chunkVars, codecVars>>

\* ---- new_snapshot run alone (history.rs:298-310) ----
\* ssh.rs:313-327, set_head with the lock free: the tag is written to
\* heads/<node>.
SetHeadTo(st, p, tag) == St(st.dirs, Put(st.files, HeadPath(NodeOf(p)), <<tag>>))

\* history.rs:303-309: the Snapshot is written by write_meta and made the
\* head.
CommitTo(st, p, obj, nonce) ==
    Done(SetHeadTo(WriteMetaTo(st, p, obj, nonce), p, SaveTag(obj)), SaveTag(obj))

\* What new_snapshot(root) comes to when no other call runs beside it and
\* no write fails: get_snapshot, the Snapshot object written, set_head.
NewSnapshot(st, p, root, now, nonce) ==
    Bind(SnapshotResult(st.files, p),
         LAMBDA snap :
            IF ~snap.ok THEN Failed(st, snap.val)
            ELSE CommitTo(st, p, Snapshot(Time(now, 0), root, ParentOf(snap.val)),
                          nonce))

\* A snapshot is made of the root that the last update_paths returned.
snapshot(p) ==
    /\ pc[p] = "idle"
    /\ Turn(p)
    /\ upd # None
    /\ begun < MaxSnapshots
    /\ begun' = begun + 1
    /\ \E now \in ClockValues :
       \E r \in {NewSnapshot(St(dirs, files), p, upd[1].root, now, CallNonce)} :
           /\ dirs' = r.st.dirs
           /\ files' = r.st.files
           /\ committed' = IF r.ok THEN committed \cup {<<NodeOf(p), r.val>>}
                           ELSE committed
           /\ upd' = IF r.ok THEN Some([upd[1] EXCEPT !.snap = Some(r.val)])
                     ELSE upd
           /\ ev' = <<p, "new_snapshot", Some(upd[1].root),
                      IF r.ok THEN Ok(r.val) ELSE Err(r.val)>>
    /\ UNCHANGED <<keystore, sched, node, keygen, pc, call, written, disk, updates,
                   chk, chunkVars, codecVars>>

\* ---- check (history.rs:195-275) ----
Modes == {"Quick", "Normal", "Slow", "Exhaustive"}

\* Blocks looked at in Exhaustive mode alone.
BlocksOnlyExhaustive(mode) == mode = "Exhaustive"

\* Hashes compared whenever blocks are read.
HashesWhenRead(mode) == mode \in {"Slow", "Exhaustive"}

\* history.rs:72-73
check_hashes(mode) == mode = "Exhaustive"
check_blocks(mode) == mode \in {"Slow", "Exhaustive"}

\* The hash of what the Hasher has been given before anything is written
\* to it.
HashOfNothing(bytes, tag) == BlockTag(<<>>) # tag

\* history.rs:204-212: the SHA-256 of the bytes read against the tag.
HashDiffers(bytes, tag) == BlockTag(bytes) # tag

\* history.rs:195-214, check_block(mode, tag)
check_block(f, p, mode, tag) ==
    IF ~check_blocks(mode) THEN Ok(TRUE)
    ELSE Bind(ReadBlockIn(f, p, tag),
              LAMBDA blk :
                IF ~blk.ok THEN blk
                ELSE IF check_hashes(mode) /\ HashDiffers(blk.val, tag)
                THEN Ok(FALSE)
                ELSE Ok(TRUE))

\* history.rs:216-250, check_file and check_tree: `All` goes through the
\* blocks of a File (kind "block") or the children of a Tree (kind "file")
\* in order and stops at the first that is not Ok(true).
RECURSIVE All(_, _, _, _, _)
RECURSIVE check_file(_, _, _, _)
RECURSIVE check_tree(_, _, _, _)
All(f, p, mode, kind, tags) ==
    IF tags = <<>> THEN Ok(TRUE)
    ELSE Bind(IF kind = "block" THEN check_block(f, p, mode, Head(tags))
              ELSE check_file(f, p, mode, Head(tags)),
              LAMBDA r : IF ~r.ok THEN r
                         ELSE IF ~r.val THEN Ok(FALSE)
                         ELSE All(f, p, mode, kind, Tail(tags)))

\* The same, but with an object of any other kind passed as sound.
CheckFileAnyKind(f, p, mode, tag) ==
    Bind(ReadMetaIn(f, p, tag),
         LAMBDA obj :
            IF ~obj.ok THEN obj
            ELSE IF obj.val.kind = "File"
            THEN All(f, p, mode, "block", obj.val.body)
            ELSE IF obj.val.kind = "Tree" THEN check_tree(f, p, mode, tag)
            ELSE Ok(TRUE))

check_file(f, p, mode, tag) ==
    Bind(ReadMetaIn(f, p, tag),
         LAMBDA obj :
            IF ~obj.ok THEN obj
            ELSE IF obj.val.kind = "File"
            THEN All(f, p, mode, "block", obj.val.body)
            ELSE IF obj.val.kind = "Symlink" THEN Ok(TRUE)
            ELSE IF obj.val.kind = "Tree" THEN check_tree(f, p, mode, tag)
            ELSE Ok(FALSE))

check_tree(f, p, mode, tag) ==
    Bind(ReadMetaIn(f, p, tag),
         LAMBDA obj :
            IF ~obj.ok THEN obj
            ELSE IF obj.val.kind = "Tree"
            THEN All(f, p, mode, "file", obj.val.children)
            ELSE Ok(FALSE))

\* The result of check with the number of snapshots whose tree it has gone
\* through.
Visited(r, n) == [ok |-> r.ok, val |-> r.val, seen |-> n]

\* history.rs:261-265: the parent of a snapshot is read.
ReadParent(f, p, snap) ==
    IF snap.parent = None THEN Ok(None)
    ELSE Bind(ReadMetaIn(f, p, snap.parent[1]),
              LAMBDA r : IF r.ok THEN Ok(Some(r.val)) ELSE r)

\* history.rs:257-273: the loop down the chain; the parent is read before
\* the tree of the snapshot is checked.
RECURSIVE CheckChain(_, _, _, _, _)
CheckChain(f, p, mode, head, n) ==
    IF head = None THEN Visited(Ok(TRUE), n)
    ELSE IF head[1].kind # "Snapshot" THEN Visited(Ok(FALSE), n)
    ELSE Bind(ReadParent(f, p, head[1]),
              LAMBDA up :
                IF ~up.ok THEN Visited(up, n)
                ELSE Bind(check_tree(f, p, mode, head[1].root),
                          LAMBDA tree :
                            IF ~tree.ok THEN Visited(tree, n)
                            ELSE IF ~tree.val THEN Visited(Ok(FALSE), n + 1)
                            ELSE CheckChain(f, p, mode, up.val, n + 1)))

\* history.rs:252-275, check(mode)
CheckResult(f, p, mode) ==
    Bind(HeadResult(f, p),
         LAMBDA head : IF ~head.ok THEN Visited(head, 0)
                       ELSE CheckChain(f, p, mode, head.val, 0))

check(p, mode) ==
    /\ pc[p] = "idle"
    /\ Turn(p)
    /\ ev' = <<p, "check", mode, CheckResult(files, p, mode)>>
    /\ UNCHANGED <<dirs, files, keystore, sched, node, keygen, pc, call, written,
                   committed, begun, histVars, chunkVars, codecVars>>

\* ---- check, one turn of its loop after the other ----
\* history.rs:254, let mut head = self.backend.get_head()?;
check_begin(p, mode) ==
    /\ pc[p] = "idle"
    /\ Turn(p)
    /\ \E head \in {HeadResult(files, p)} :
          IF head.ok
          THEN /\ chk' = Some([mode |-> mode, head |-> head.val])
               /\ pc' = [pc EXCEPT ![p] = "check"]
               /\ ev' = NoReturn
          ELSE /\ ev' = <<p, "check", mode, head>>
               /\ UNCHANGED <<chk, pc>>
    /\ UNCHANGED <<dirs, files, keystore, sched, node, keygen, call, written,
                   committed, begun, disk, upd, updates, chunkVars, codecVars>>

\* What one turn of `while let Some(root) = head` (history.rs:257-273) comes
\* to: the result that check returns, or the head of the next turn.
Returns(res) == [done |-> TRUE, res |-> res]
GoesOn(head) == [done |-> FALSE, head |-> head]

LoopTurn(f, p, mode, head) ==
    IF head = None THEN Returns(Ok(TRUE))
    ELSE IF head[1].kind # "Snapshot" THEN Returns(Ok(FALSE))
    ELSE Bind(ReadParent(f, p, head[1]),
              LAMBDA up :
                IF ~up.ok THEN Returns(up)
                ELSE Bind(check_tree(f, p, mode, head[1].root),
                          LAMBDA tree :
                            IF ~tree.ok THEN Returns(tree)
                            ELSE IF ~tree.val THEN Returns(Ok(FALSE))
                            ELSE GoesOn(up.val)))

check_turn(p) ==
    /\ pc[p] = "check"
    /\ Turn(p)
    /\ \E t \in {LoopTurn(files, p, chk[1].mode, chk[1].head)} :
          IF t.done
          THEN /\ chk' = None
               /\ pc' = [pc EXCEPT ![p] = "idle"]
               /\ ev' = <<p, "check", chk[1].mode, t.res>>
          ELSE /\ chk' = Some([chk[1] EXCEPT !.head = t.head])
               /\ ev' = NoReturn
               /\ UNCHANGED pc
    /\ UNCHANGED <<dirs, files, keystore, sched, node, keygen, call, written,
                   committed, begun, disk, upd, updates, chunkVars, codecVars>>

\* ---- objects that go missing ----
\* The files of the objects that the chain from the head of p's node refers
\* to, those that are not there included: the object of a tag and, as far as
\* it can be read, all it refers to.
RECURSIVE Refs(_, _, _)
RefsOf(f, p, obj) ==
    IF obj.kind = "Snapshot"
    THEN Refs(f, p, obj.root)
            \cup (IF obj.parent = None THEN {} ELSE Refs(f, p, obj.parent[1]))
    ELSE IF obj.kind = "Tree"
    THEN UNION {Refs(f, p, obj.children[i]) : i \in 1..Len(obj.children)}
    ELSE IF obj.kind = "File"
    THEN {ObjPath("blocks", obj.body[i]) : i \in 1..Len(obj.body)}
    ELSE {}

Refs(f, p, tag) ==
    {ObjPath("metadata", tag)}
        \cup Bind(ReadMetaIn(f, p, tag),
                  LAMBDA obj : IF obj.ok THEN RefsOf(f, p, obj.val) ELSE {})

ChainRefs(f, p) ==
    IF HeadPath(NodeOf(p)) \notin DOMAIN f \/ f[HeadPath(NodeOf(p))] = EmptyFile
    THEN {}
    ELSE Refs(f, p, f[HeadPath(NodeOf(p))][1])

Missing(f, p) == ChainRefs(f, p) \ DOMAIN f

\* One file of the destination is lost: the head file, or the file of an
\* object of the chain, while nothing else of the chain is missing.
lose(p, q) ==
    /\ pc[p] = "idle"
    /\ q \in ChainRefs(files, p) \cup {HeadPath(NodeOf(p))}
    /\ q \in DOMAIN files
    /\ Missing(files, p) = {}
    /\ files' = Remove(files, q)
    /\ ev' = NoReturn
    /\ UNCHANGED <<dirs, keystore, sched, node, keygen, pc, call, written,
                   committed, begun, histVars, chunkVars, codecVars>>

\* The file of an object takes the content of the file of another object of
\* the same store, as when files of the destination are renamed or restored
\* under the wrong name: the content still decrypts, to an object that is
\* not the one of the tag.
misplace(p, from, to) ==
    /\ pc[p] = "idle"
    /\ from \in DOMAIN files
    /\ to \in DOMAIN files
    /\ from[1] \in {"blocks", "metadata"}
    /\ to[1] = from[1]
    /\ files[from] # files[to]
    /\ files' = Put(files, to, files[from])
    /\ ev' = NoReturn
    /\ UNCHANGED <<dirs, keystore, sched, node, keygen, pc, call, written,
                   committed, begun, histVars, chunkVars, codecVars>>

\* ssh.rs:292-311, Backend::get_head
get_head(p) ==
    /\ pc[p] = "idle"
    /\ Turn(p)
    /\ ev' = <<p, "get_head", None, HeadResult(files, p)>>
    /\ UNCHANGED <<dirs, files, keystore, sched, node, keygen, pc, call, written,
                   committed, begun, histVars, chunkVars, codecVars>>

\* history.rs:317, get_path(path)
get_path(p, q) ==
    /\ pc[p] = "idle"
    /\ Turn(p)
    /\ \E res \in {GetPath(files, p, q)} :
          /\ ev' = <<p, "get_path", q, res>>
          /\ pc' = [pc EXCEPT ![p] = IF res = Panic THEN "aborted" ELSE "idle"]
    /\ UNCHANGED <<dirs, files, keystore, sched, node, keygen, call, written,
                   committed, begun, histVars, chunkVars, codecVars>>

\* ---- objects that a caller of the Backend may store ----
\* write_meta takes any MetaObject and set_head any tag (remote/mod.rs): the
\* objects below are well-formed one by one, and some refer to an object of
\* a kind that does not belong there.
FileX == FileObject(NameX, StoreMeta, <<>>)
TreeOfX == TreeObject(NameA, StoreMeta, <<SaveTag(FileX)>>)
RootGood == TreeObject(<<>>, StoreMeta, <<SaveTag(TreeOfX)>>)
SnapGood == Snapshot(Time(1, 0), SaveTag(RootGood), None)
\* a Snapshot whose root is a File
SnapOverFile == Snapshot(Time(1, 0), SaveTag(FileX), None)
\* a root Tree whose first child is a Snapshot, and a Snapshot of it
TreeOverSnap == TreeObject(<<>>, StoreMeta, <<SaveTag(SnapGood), SaveTag(TreeOfX)>>)
SnapOverSnap == Snapshot(Time(1, 0), SaveTag(TreeOverSnap), None)
\* a Snapshot of a good root whose parent is the Snapshot of the File
SnapOnBad == Snapshot(Time(2, 0), SaveTag(RootGood), Some(SaveTag(SnapOverFile)))

AnyObjects ==
    {FileX, TreeOfX, RootGood, SnapGood, SnapOverFile, TreeOverSnap, SnapOverSnap,
     SnapOnBad}
AnyTags == {SaveTag(obj) : obj \in AnyObjects}

\* The tags an object refers to.
TagsIn(obj) ==
    IF obj.kind = "Snapshot"
    THEN {obj.root} \cup (IF obj.parent = None THEN {} ELSE {obj.parent[1]})
    ELSE IF obj.kind = "Tree"
    THEN {obj.children[i] : i \in 1..Len(obj.children)}
    ELSE {}

\* The caller stores an object after the objects it refers to.
RefsStored(f, obj) == \A t \in TagsIn(obj) : ObjPath("metadata", t) \in DOMAIN f

\* The paths looked up: /, /a, /a/x, /a/y and /a/x/y.
PathAXY == <<NameA, NameX, NameY>>
LookupPaths == {<<>>, PathA, PathAX, PathAY, PathAXY}

\* ssh.rs:261-290, write_meta(obj) run alone, no request failing.
store_meta(p, obj) ==
    /\ pc[p] = "idle"
    /\ Turn(p)
    /\ \E st \in {WriteMetaTo(St(dirs, files), p, obj, CallNonce)} :
          /\ dirs' = st.dirs
          /\ files' = st.files
    /\ ev' = <<p, "write_meta", Some(SaveBytes(obj)), Ok(SaveTag(obj))>>
    /\ UNCHANGED <<keystore, sched, node, keygen, pc, call, written, committed,
                   begun, histVars, chunkVars, codecVars>>

\* ssh.rs:313-327, set_head(tag) run alone: the lock is taken, or the call
\* returns the error; the tag is written to the head file and the lock
\* dropped; Ok(()), here Ok(None).
set_head(p, tag) ==
    /\ pc[p] = "idle"
    /\ Turn(p)
    /\ IF OpenExclusive(files, LockPath)
       THEN /\ files' = SetHeadTo(St(dirs, files), p, tag).files
            /\ ev' = <<p, "set_head", Some(tag), Ok(None)>>
       ELSE /\ ev' = <<p, "set_head", Some(tag), Err("unable to lock")>>
            /\ UNCHANGED files
    /\ UNCHANGED <<dirs, keystore, sched, node, keygen, pc, call, written,
                   committed, begun, histVars, chunkVars, codecVars>>

\* ---- the steps of a process ----
\* Connecting to the destination.
ConnectNext(p) ==
    \/ create_lock(p)
    \/ create_drop(p)
    \/ initialize(p)

\* The requests of a write_block or write_meta that has begun.
WriteNext(p) ==
    \/ write_mkdir(p)
    \/ write_stat(p)
    \/ write_create(p)
    \/ write_all(p)

\* A process that stores and fetches blocks and metadata objects.
ObjectNext(p) ==
    \/ ConnectNext(p)
    \/ \E d \in BlockData : write_block(p, d)
    \/ \E obj \in MetaObjects : write_meta(p, obj)
    \/ WriteNext(p)
    \/ \E tag \in BlockTags : read_block(p, tag)
    \/ \E tag \in MetaTags : read_meta(p, tag)

\* A process that reads the head and commits snapshots.
CommitNext(p) ==
    \/ ConnectNext(p)
    \/ get_snapshot(p)
    \/ \E root \in Roots : new_snapshot(p, root)
    \/ get_head_read(p)
    \/ get_head_meta(p)
    \/ new_snapshot_store(p)
    \/ WriteNext(p)
    \/ set_head_lock(p)
    \/ set_head_write(p)

(***************************************************************************)
(*                            Specifications                               *)
(***************************************************************************)

ChunkInit == ChunkStart /\ CodecIdle /\ StoreIdle
SpecChunk == ChunkInit /\ [][ChunkNext]_vars

CodecInit == CodecStart /\ ChunkIdle /\ StoreIdle
SpecCodec == CodecInit /\ [][CodecNext]_vars

\* Processes of one node that store and fetch objects on one destination,
\* in every interleaving of their SFTP requests.
Init ==
    StoreStart /\ sched = "any" /\ node = OneNode /\ disk = NoDisk /\ ChunkIdle
        /\ CodecIdle
NextObjects == \E p \in Procs : ObjectNext(p)
SpecObjects == Init /\ [][NextObjects]_vars

\* The same processes, their calls one after the other.
InitSerial ==
    StoreStart /\ sched = "serial" /\ node = OneNode /\ disk = NoDisk /\ ChunkIdle
        /\ CodecIdle
SpecObjectsSerial == InitSerial /\ [][NextObjects]_vars

\* Processes that store and fetch objects and list the metadata objects,
\* their calls one after the other.
NextList == \E p \in Procs : ObjectNext(p) \/ list_meta(p)
SpecListSerial == InitSerial /\ [][NextList]_vars

\* Processes of one node that read the head and commit snapshots on one
\* destination, in every interleaving of their SFTP requests.
NextCommit == \E p \in Procs : CommitNext(p)
SpecCommit == Init /\ [][NextCommit]_vars

\* The same processes, their calls one after the other.
SpecCommitSerial == InitSerial /\ [][NextCommit]_vars

\* Processes, of one node or of two, that connect to one destination that
\* is not yet initialized, in every interleaving of their SFTP requests.
InitConnect ==
    /\ StoreStart
    /\ sched = "any"
    /\ node \in {nd \in [Procs -> Nodes] : nd[1] = "a"}
    /\ disk = NoDisk
    /\ ChunkIdle
    /\ CodecIdle
NextConnect == \E p \in Procs : create_lock(p) \/ create_drop(p) \/ InitializeNext(p)
SpecConnect == InitConnect /\ [][NextConnect]_vars

\* The committing processes, their calls one after the other, with requests
\* that may fail.
\* The history layer, its calls one after the other and none failing: paths
\* are stored from a local file system that changes between the calls,
\* snapshots are made of the roots update_paths returned, the chain is
\* checked and paths are looked up.
InitHistory ==
    StoreStart /\ sched = "serial" /\ node = OneNode /\ disk = NoDisk /\ ChunkIdle
        /\ CodecIdle

HistoryNext(p) ==
    \/ ConnectNext(p)
    \/ \E d \in DiskStates : \E P \in PathSets(d) : update_paths(p, d, P)
    \/ snapshot(p)
    \/ \E mode \in Modes : check(p, mode)
    \/ \E q \in Paths : get_path(p, q)

\* History borrows the one Backend of the process (history.rs:190-192):
\* the calls are those of one process.
Client == 1

NextHistory == HistoryNext(Client)
SpecHistory == InitHistory /\ [][NextHistory]_vars

\* The same, the local file system holding a file and a symlink, with files
\* of the destination going missing; nothing more is stored once one is gone.
Intact == Missing(files, Client) = {} /\ (begun > 0 => HeadPath(NodeOf(Client)) \in DOMAIN files)

DamagedNext(p) ==
    \/ ConnectNext(p)
    \/ \E P \in PathSets(DiskLink) : Intact /\ update_paths(p, DiskLink, P)
    \/ Intact /\ snapshot(p)
    \/ \E q \in DOMAIN files : lose(p, q)
    \/ \E mode \in Modes : check(p, mode)
    \/ get_head(p)

NextDamaged == DamagedNext(Client)
SpecDamaged == InitHistory /\ [][NextDamaged]_vars

\* The history layer on a local tree of two files; block files of the
\* destination take the content of one another, or one goes missing, and
\* nothing more is stored after that.
Pristine ==
    /\ Intact
    /\ \A q \in DOMAIN files :
          q[1] = "blocks" => BlockTag(ReadBlockIn(files, Client, q[3]).val) = q[3]

MisplacedNext(p) ==
    \/ ConnectNext(p)
    \/ \E q \in DOMAIN DiskNew : Pristine /\ update_paths(p, DiskNew, {q})
    \/ Pristine /\ snapshot(p)
    \/ \E from, to \in DOMAIN files : from[1] = "blocks" /\ misplace(p, from, to)
    \/ \E q \in DOMAIN files : q[1] = "blocks" /\ lose(p, q)
    \/ \E mode \in Modes : check(p, mode)

NextMisplaced == MisplacedNext(Client)
SpecMisplaced == InitHistory /\ [][NextMisplaced]_vars

\* The history layer on the local tree /a/x; files of snapshots take the
\* content of one another, and nothing more is stored after that; check
\* runs one turn of its loop after the other.  In SpecLoopFair a check that
\* has begun goes on running.
InPlace ==
    \A q \in DOMAIN files :
        q[1] = "metadata" => SaveTag(ReadMetaIn(files, Client, q[3]).val) = q[3]

HoldsSnapshot(f, q) ==
    /\ q \in DOMAIN f
    /\ q[1] = "metadata"
    /\ decrypt_inplace(meta_key(Client).data, meta_key(Client).nname, f[q]).ok
    /\ Load(decrypt_inplace(meta_key(Client).data, meta_key(Client).nname,
                            f[q]).val).obj.kind = "Snapshot"

LoopNext(p) ==
    \/ ConnectNext(p)
    \/ \E q \in DOMAIN DiskOne : InPlace /\ update_paths(p, DiskOne, {q})
    \/ InPlace /\ snapshot(p)
    \/ \E from, to \in DOMAIN files :
            /\ HoldsSnapshot(files, from)
            /\ HoldsSnapshot(files, to)
            /\ misplace(p, from, to)
    \/ \E mode \in Modes : check_begin(p, mode)
    \/ check_turn(p)

NextLoop == LoopNext(Client)
SpecLoop == InitHistory /\ [][NextLoop]_vars
SpecLoopFair == SpecLoop /\ WF_vars(check_turn(Client))

\* The history layer on a local tree of two files, of which the second is
\* written anew between the calls; one path is updated at a time.
FrameNext(p) ==
    \/ ConnectNext(p)
    \/ \E d \in {DiskNew, DiskTouched} : \E q \in DOMAIN d : update_paths(p, d, {q})
    \/ snapshot(p)

NextFrame == FrameNext(Client)
SpecFrame == InitHistory /\ [][NextFrame]_vars

\* The history layer called on what it is not made for: a local tree with a
\* named pipe in it, and paths to look up that are not canonical.
OddPaths == {PathAX, <<ParentDir>>, <<NameA, ParentDir, NameA>>}

CallerNext(p) ==
    \/ ConnectNext(p)
    \/ \E P \in PathSets(DiskFifo) : update_paths(p, DiskFifo, P)
    \/ snapshot(p)
    \/ \E q \in OddPaths : get_path(p, q)

NextCaller == CallerNext(Client)
SpecCaller == InitHistory /\ [][NextCaller]_vars

\* One process that stores metadata objects of any kind through the Backend
\* and sets the head to any stored tag, each object after those it refers
\* to; the chain is checked and paths are looked up.
AnyNext(p) ==
    \/ ConnectNext(p)
    \/ \E obj \in AnyObjects : RefsStored(files, obj) /\ store_meta(p, obj)
    \/ \E tag \in AnyTags : ObjPath("metadata", tag) \in DOMAIN files /\ set_head(p, tag)
    \/ \E mode \in Modes : check(p, mode)
    \/ \E q \in LookupPaths : get_path(p, q)

NextAny == AnyNext(Client)
SpecAny == InitHistory /\ [][NextAny]_vars

\* Processes of two nodes that store and fetch objects on one destination,
\* their calls one after the other.
TwoNodes == [p \in Procs |-> IF p = 1 THEN "a" ELSE "b"]
InitNodes ==
    StoreStart /\ sched = "serial" /\ node = TwoNodes /\ disk = NoDisk /\ ChunkIdle
        /\ CodecIdle
SpecNodesSerial == InitNodes /\ [][NextObjects]_vars

NextFaults == \E p \in Procs : CommitNext(p) \/ FaultNext(p)
SpecFaultsSerial == InitSerial /\ [][NextFaults]_vars

(***************************************************************************)
(*                     Claims about the chunker (C1-C3)                    *)
(***************************************************************************)

RECURSIVE SumRange(_, _, _)
SumRange(s, lo, hi) ==
    IF lo > hi THEN 0
    ELSE IF lo = hi THEN s[lo]
    ELSE LET mid == (lo + hi) \div 2
         IN SumRange(s, lo, mid) + SumRange(s, mid + 1, hi)

\* The running sum of section 4.1 over a buffer c, in closed form: 1 plus the
\* bytes still inside the window (the last 8195 once c holds 8196 or more).
RefSum(c) == 1 + SumRange(c, Max(1, Len(c) - 8194), Len(c))

\* Emitted chunks up to this length have every proper prefix checked against
\* the closed form.
PrefixCheckLen == 600

LastRet == ret[Len(ret)]

RECURSIVE Expand(_)
Expand(script) ==
    IF script = <<>> THEN <<>>
    ELSE [i \in 1..script[1].n |-> script[1].v] \o Expand(Tail(script))

RECURSIVE ScriptLen(_)
ScriptLen(script) ==
    IF script = <<>> THEN 0 ELSE script[1].n + ScriptLen(Tail(script))

RECURSIVE ConcatChunks(_)
ConcatChunks(rs) ==
    IF rs = <<>> THEN <<>>
    ELSE (IF rs[1].kind = "chunk" THEN rs[1].bytes ELSE <<>>) \o ConcatChunks(Tail(rs))

RECURSIVE ChunksLen(_)
ChunksLen(rs) ==
    IF rs = <<>> THEN 0
    ELSE (IF rs[1].kind = "chunk" THEN Len(rs[1].bytes) ELSE 0) + ChunksLen(Tail(rs))

ErrorFree(script) == \A i \in 1..Len(script) : script[i].v # ErrItem

Consumed == ScriptLen(src) - ScriptLen(iter)

\* The sum never leaves the range of a u32: it is 1 plus at most 8195 bytes.
SumInRange == sum >= 1 /\ sum <= 1 + 255 * 8195

C1_State ==
    /\ SumInRange
       \* a byte that does not end the chunk leaves a sum 4096 does not divide
    /\ last = "more" => (data # <<>> /\ sum % 4096 # 0)
       \* a chunk ended by the rule: its closed-form sum is divisible by 4096,
       \* and the sum is reset to 1 on an empty buffer
    /\ last = "break" =>
          /\ LastRet.kind = "chunk"
          /\ RefSum(LastRet.bytes) % 4096 = 0
          /\ sum = 1
          /\ data = <<>>
       \* no boundary was passed over inside an emitted chunk
    /\ (last \in {"break", "eof"} /\ Len(LastRet.bytes) <= PrefixCheckLen) =>
          \A j \in 1..(Len(LastRet.bytes) - 1) :
              RefSum(SubSeq(LastRet.bytes, 1, j)) % 4096 # 0
       \* chunk_test: 5000 bytes of 0x01 give 4095 bytes and then 905
    /\ (src = <<Run(1, 5000)>> /\ last \in {"eof", "none"}) =>
          /\ ret[1].kind = "chunk" /\ Len(ret[1].bytes) = 4095
          /\ ret[2].kind = "chunk" /\ Len(ret[2].bytes) = 905
          /\ \A i \in 3..Len(ret) : ret[i].kind = "none"

\* One loop iteration on an Ok byte x: the sum becomes sum + x, less the byte
\* at position len - 8196 once the buffer holds at least 8196 bytes; the chunk
\* ends exactly when 4096 divides that value.
C1_Step ==
    (iter # <<>> /\ iter' # iter /\ IterHead(iter) # ErrItem) =>
        LET pushed == IF last' = "break" THEN ret'[Len(ret')].bytes ELSE data'
            len == Len(pushed)
            next == sum + pushed[len]
                        - (IF len >= 8196 THEN pushed[len - 8195] ELSE 0)
        IN /\ last' \in {"more", "break"}
           /\ pushed = Append(data, IterHead(iter))
           /\ (last' = "break") <=> (next % 4096 = 0)
           /\ last' = "more" => sum' = next
           /\ last' = "break" => sum' = 1

\* C1: a chunk ends at position k iff the running sum (initially 1, each byte
\* added, the byte at position len-8196 subtracted once the buffer holds 8196
\* bytes) is divisible by 4096 at k; the sum is reset to 1 after each
\* boundary; 5000 bytes of 0x01 give a chunk of 4095 and a last one of 905.
C1_BoundaryRule == []C1_State /\ [][C1_Step]_vars

\* A chunk of mixed bytes has been ended by the rule (240 * 17 + 15 + 1 = 4096).
C1_Witness ==
    /\ ErrorFree(src)
    /\ last = "break"
    /\ Len(LastRet.bytes) = 241
    /\ sum = 1

\* C2: for an error-free input, the emitted chunks concatenated in order are
\* the input read so far without the bytes still buffered (nothing dropped,
\* duplicated or reordered), all of the input once next() has returned None;
\* no emitted chunk is empty, and the empty input yields no chunk.
C2_Concat ==
    ErrorFree(src) =>
        /\ ChunksLen(ret) + Len(data) = Consumed
        /\ \A i \in 1..Len(ret) : ret[i].kind = "chunk" => ret[i].bytes # <<>>
        /\ last \in {"new", "break", "eof", "none"} =>
              ConcatChunks(ret) \o data = SubSeq(Expand(src), 1, Consumed)
        /\ last = "none" => (iter = <<>> /\ ConcatChunks(ret) = Expand(src))
        /\ src = <<>> => \A i \in 1..Len(ret) : ret[i].kind = "none"

\* An error-free input of several chunks has been read to its end.
C2_Witness ==
    /\ ErrorFree(src)
    /\ last = "none"
    /\ Cardinality({i \in 1..Len(ret) : ret[i].kind = "chunk"}) >= 3

\* C3: once the byte source has yielded an error and next() has returned it,
\* next() yields nothing more: every later call returns None, and no chunk
\* holding the bytes buffered before the error is emitted.
C3_ErrorStops ==
    \A i \in 1..Len(ret) :
        ret[i].kind = "err" => \A j \in (i + 1)..Len(ret) : ret[j].kind = "none"

(***************************************************************************)
(*                      Claims about the codec (C4)                        *)
(***************************************************************************)

WholeSecond(t) == t.secs >= 0 /\ t.nanos = 0

\* The objects C4 speaks of: whole-second times at or after the epoch, a name
\* of at most 65535 bytes, a mode below 2^16.
InContract(obj) ==
    IF obj.kind = "Snapshot" THEN WholeSecond(obj.create_time)
    ELSE /\ WholeSecond(obj.meta.mtime)
         /\ WholeSecond(obj.meta.atime)
         /\ Len(obj.name) <= 65535
         /\ obj.meta.mode < 65536

\* C4: for every metadata object x of the four kinds within the contract,
\* load(save(x)) = x (a Symlink keeps its target), and the identity tag is
\* that of the bytes of x.
C4_RoundTrip ==
    (cpc = "loaded" /\ InContract(cx[1])) =>
        /\ cy.ok
        /\ cy.obj = cx[1]
        /\ ctag = Some(Sha256(cbytes))

\* What does hold: Snapshot, Tree and File objects round-trip, and so does a
\* Symlink whose target equals its name.
C4_OtherKinds ==
    (cpc = "loaded" /\ InContract(cx[1])
        /\ (cx[1].kind = "Symlink" => cx[1].target = cx[1].name)) =>
        (cy.ok /\ cy.obj = cx[1])

(***************************************************************************)
(*                   Claims about the object store (C5, C6)                *)
(***************************************************************************)

\* A file that is there and has been written in full.
Stored(f, path) == path \in DOMAIN f /\ f[path] # EmptyFile

\* The paths of the blocks and metadata objects.
ObjPaths(f) == {q \in DOMAIN f : q[1] \in {"metadata", "blocks"}}

\* Process p takes the step.
Stepped(p) == pc'[p] # pc[p] \/ call'[p] # call[p] \/ ev'[1] = p

\* C5: for every plaintext block p and every prior state of the store,
\* write_block(p) returns the tag SHA-256(p), and a read_block of that tag by
\* the same process afterwards returns exactly p.
C5_WriteThenRead ==
    /\ (EvOp = "write_block" /\ EvRes.ok) => EvRes.val = BlockTag(EvArg[1])
    /\ (EvOp = "read_block" /\ <<EvProc, EvArg[1]>> \in written) =>
            \E d \in BlockData : BlockTag(d) = EvArg[1] /\ EvRes = Ok(d)

\* C6, state part: a write that has returned a tag has left a complete file
\* under that tag, and a tag has one file: its path is fixed by the store and
\* the tag.
C6_State ==
    /\ (EvOp \in {"write_block", "write_meta"} /\ EvRes.ok) =>
            Stored(files, ObjPath(IF EvOp = "write_block" THEN "blocks"
                                  ELSE "metadata", EvRes.val))
    /\ \A q \in ObjPaths(files) : q = ObjPath(q[1], q[3])
    /\ \A q, r \in ObjPaths(files) : (q[1] = r[1] /\ q[3] = r[3]) => q = r

\* C6, step part: no step modifies or removes a stored object or block; and
\* every step of a write whose tag is already stored leaves all files and
\* directories as they are, the write returning that tag.
C6_Step ==
    /\ \A q \in ObjPaths(files) :
            Stored(files, q) => (q \in DOMAIN files' /\ files'[q] = files[q])
    /\ \A p \in Procs :
            (Stepped(p) /\ call'[p].store # "none"
                /\ Stored(files, ObjPath(call'[p].store, call'[p].tag[1]))) =>
                (files' = files /\ dirs' = dirs)
    /\ \A p \in Procs :
            (Stepped(p) /\ call[p].op \in {"write_block", "write_meta"}
                /\ Stored(files, ObjPath(call[p].store, call[p].tag[1]))) =>
                /\ files' = files
                /\ dirs' = dirs
                /\ ev' = <<p, call[p].op, call[p].body, Ok(call[p].tag[1])>>

\* C6: after any sequence of write_block and write_meta calls, a write whose
\* tag is already stored returns that tag and is a no-op, there is one stored
\* file per tag, and no store operation modifies or removes a stored object
\* or block.
C6_Immutable == []C6_State /\ [][C6_Step]_vars

\* A write_block has returned the tag of a block that the other process had
\* stored before.
C6_Witness ==
    /\ EvOp = "write_block"
    /\ EvRes.ok
    /\ \E q \in Procs \ {EvProc} : <<q, EvRes.val>> \in written
    /\ \E r \in ObjPaths(files) : r[1] = "metadata" /\ Stored(files, r)

(***************************************************************************)
(*               Claims about the lock and the head (C7 - C10)             *)
(***************************************************************************)

\* The processes that hold a BackendLock.
Holders == {p \in Procs : pc[p] \in {"create_locked", "get_head", "set_head_write"}}

C7_State ==
    /\ Cardinality(Holders) <= 1
    /\ \A p \in Holders : LockPath \in DOMAIN files /\ files[LockPath] = p

C7_Step ==
    LockPath \in DOMAIN files =>
        IF LockPath \in DOMAIN files'
        THEN files'[LockPath] = files[LockPath]
        ELSE /\ files[LockPath] \in Holders
             /\ pc'[files[LockPath]] # pc[files[LockPath]]
             /\ \A q \in Procs \ {files[LockPath]} : pc'[q] = pc[q]

\* C7: in every interleaving of processes that connect to, read the head of
\* or set the head of one destination, at most one process holds bkp.lock at
\* any time, and a lock file is removed only by the process that created it.
C7_MutualExclusion == []C7_State /\ [][C7_Step]_vars

\* A process has just been refused the lock that another process holds.
C7_Witness ==
    /\ EvProc \in Procs
    /\ ~EvRes.ok
    /\ EvRes.val = "unable to lock"
    /\ \E q \in Holders : q # EvProc

C8_State ==
    /\ Cardinality({p \in Procs : pc[p] = "set_head_write"}) <= 1
    /\ \A n \in Nodes :
        HeadPath(n) \in DOMAIN files =>
            /\ files[HeadPath(n)] # EmptyFile
            /\ <<n, files[HeadPath(n)][1]>> \in committed
            /\ Load(files[HeadPath(n)][1].sha256).ok
            /\ Load(files[HeadPath(n)][1].sha256).obj.kind = "Snapshot"

C8_Step ==
    \A p \in Procs :
        (pc[p] = "set_head" /\ pc'[p] # "set_head" /\ LockPath \in DOMAIN files) =>
            /\ pc'[p] = "idle"
            /\ ev' = <<p, "new_snapshot", call[p].root, Err("unable to lock")>>
            /\ files' = files
            /\ dirs' = dirs
            /\ committed' = committed

\* C8: two concurrent set_head attempts cannot both succeed: a set_head made
\* while another process holds bkp.lock fails at once with the lock error,
\* changing no file and no directory, and the head is always the tag of one
\* of the committed Snapshots.
C8_SetHeadContention == []C8_State /\ [][C8_Step]_vars

\* The set_head of a new_snapshot has just failed on the lock.
C8_Witness ==
    /\ EvOp = "new_snapshot"
    /\ ~EvRes.ok
    /\ EvRes.val = "unable to lock"
    /\ begun = MaxSnapshots
    /\ LockPath \in DOMAIN files

\* The head of node n, as an Option.
HeadOf(f, n) == IF HeadPath(n) \in DOMAIN f THEN f[HeadPath(n)] ELSE None

C9_State ==
    (EvOp = "get_snapshot" /\ EvRes.ok) =>
        LET head == HeadOf(files, NodeOf(EvProc))
        IN IF head = None THEN EvRes.val = None
           ELSE /\ EvRes.val # None
                /\ EvRes.val[1].kind = "Snapshot"
                /\ SaveTag(EvRes.val[1]) = head[1]
                /\ ReadMetaResult(EvProc, head[1]) = Ok(EvRes.val[1])

C9_Step ==
    \A p \in Procs :
        (pc[p] = "set_head_write" /\ pc'[p] # "set_head_write") =>
            LET old == HeadOf(files, NodeOf(p))
                t == call[p].tag[1]
            IN /\ ev' = <<p, "new_snapshot", call[p].root, Ok(t)>>
               /\ HeadOf(files', NodeOf(p)) = Some(t)
               /\ \E secs \in ClockValues :
                    LET snap == Snapshot(Time(secs, 0), call[p].root[1], old)
                    IN /\ t = SaveTag(snap)
                       /\ ReadMetaIn(files', p, t) = Ok(snap)

RECURSIVE ChainFrom(_)
ChainFrom(t) ==
    LET obj == Load(t.sha256).obj
    IN IF obj.parent = None THEN {t} ELSE {t} \cup ChainFrom(obj.parent[1])

\* C10: in any interleaving of the processes of a node, every snapshot whose
\* new_snapshot call returned success is on the chain of parent pointers from
\* the head of the node.
C10_ChainKept ==
    \A c \in committed :
        /\ HeadOf(files, c[1]) # None
        /\ c[2] \in ChainFrom(HeadOf(files, c[1])[1])


(***************************************************************************)
(*                 Claims about failed requests (C11, C12)                 *)
(***************************************************************************)

\* C11: in every reachable state, failed writes and retries included, the
\* head (if present) names a completely written Snapshot: a file that a
\* failed write left behind is never taken as stored.
C11_HeadComplete ==
    \A n \in Nodes :
        HeadOf(files, n) # None =>
            /\ HeadOf(files, n) # EmptyFile
            /\ Stored(files, ObjPath("metadata", HeadOf(files, n)[1]))

\* C12, state part: the head file is never left partially written.
C12_State ==
    \A n \in Nodes : HeadPath(n) \in DOMAIN files => files[HeadPath(n)] # EmptyFile

\* C12, step part: a new_snapshot whose head update succeeds returns with
\* the head set; one whose head update fails returns an error and leaves the
\* head as it was before.
C12_Step ==
    \A p \in Procs :
        (pc[p] \in {"set_head", "set_head_write"} /\ pc'[p] = "idle") =>
            /\ ev'[1] = p /\ ev'[2] = "new_snapshot"
            /\ IF ev'[4].ok
               THEN HeadOf(files', NodeOf(p)) = Some(call[p].tag[1])
               ELSE HeadOf(files', NodeOf(p)) = HeadOf(files, NodeOf(p))

\* C12: commit is all-or-nothing: when the head update inside new_snapshot
\* fails at any step, new_snapshot returns an error and the head is the one
\* before the call; no partially written head is ever there to be read.
C12_AllOrNothing == []C12_State /\ [][C12_Step]_vars


(***************************************************************************)
(*                 Claims about connecting (C17, C18)                      *)
(***************************************************************************)

\* Where a process stands while it runs initialize.
InInitialize ==
    {"initialize", "init_stat_blocks", "init_mkdir_metadata",
     "init_mkdir_metakeys", "init_mkdir_blocks", "init_mkdir_heads",
     "init_new_data_key", "init_create_datakey", "init_write_datakey",
     "init_get_data_key", "init_stat_metakey", "init_create_metakey",
     "init_write_metakey"}

\* C17: a process that connects holds bkp.lock from before the first step of
\* initialize until the last write of initialize is done.
C17_LockAcrossInit ==
    \A p \in Procs :
        pc[p] \in InInitialize => (LockPath \in DOMAIN files /\ files[LockPath] = p)

\* C18, state part: at most one data key has been drawn; every process that
\* has connected has a data key in its node's keystore and its node's file
\* under metakeys; the keystores that hold a data key hold the same one, the
\* one in the datakey file once that is written.
C18_State ==
    /\ keygen <= 1
    /\ \A p \in Procs :
        pc[p] = "idle" => /\ keystore[NodeOf(p)] # None
                          /\ <<"metakeys", NodeOf(p)>> \in DOMAIN files
    /\ \A n, m \in Nodes :
        (keystore[n] # None /\ keystore[m] # None) => keystore[n] = keystore[m]
    /\ \A n \in Nodes :
        (keystore[n] # None /\ Stored(files, <<"datakey">>)) =>
            keystore[n] = Some(files[<<"datakey">>][1].sealed)

\* C18, step part: the datakey file, once written, is not written again.
C18_Step ==
    Stored(files, <<"datakey">>) =>
        (<<"datakey">> \in DOMAIN files' /\ files'[<<"datakey">>] = files[<<"datakey">>])

C19_ListMeta ==
    (EvOp = "list_meta" /\ EvRes.ok) =>
        EvRes.val = {q[3] : q \in {r \in ObjPaths(files) : r[1] = "metadata"}}


(***************************************************************************)
(*              Claim about writers of one tag (C20)                       *)
(***************************************************************************)

\* The file that the write of process p is about.
WritePath(p) == ObjPath(call[p].store, call[p].tag[1])

\* C20, state part: writers of different tags are at different files, and
\* the file of a tag that no process is writing is complete.
C20_State ==
    /\ \A p, q \in Procs :
        (pc[p] \in {"write_create", "write_all"}
            /\ pc[q] \in {"write_create", "write_all"}
            /\ call[p].tag # call[q].tag) => WritePath(p) # WritePath(q)
    /\ \A r \in ObjPaths(files) :
        (\A p \in Procs : ~(pc[p] = "write_all" /\ WritePath(p) = r)) =>
            Stored(files, r)

\* C20, step part: a writer that writes where another writer of the tag has
\* written writes the same bytes: the file is the same whichever writer wins.
C20_Step ==
    \A p \in Procs :
        (pc[p] = "write_all" /\ pc'[p] # "write_all"
            /\ Stored(files, WritePath(p))) =>
            files'[WritePath(p)] = files[WritePath(p)]

\* C20: when two processes write one block or one metadata object at once,
\* without the lock, in every interleaving of their requests the bytes they
\* write are the same, so the file stored under the tag is complete and the
\* same whichever writer wins; writers of different tags touch different
\* files.
C20_SameBytes == []C20_State /\ [][C20_Step]_vars

(***************************************************************************)
(*                 Claims about the history layer (C13-C16)                *)
(***************************************************************************)

\* The number of snapshots on the chain of parent pointers from the head of
\* node n.
ChainLength(f, n) ==
    IF HeadOf(f, n) = None THEN 0 ELSE Cardinality(ChainFrom(HeadOf(f, n)[1]))

MissingFor(f, p, mode) ==
    {q \in Missing(f, p) : q[1] = "metadata" \/ mode \in {"Slow", "Exhaustive"}}

\* C14: when an object on the chain from the head is missing (a parent
\* Snapshot, a Tree, a File or Symlink object or, in Slow and Exhaustive
\* mode, a block) and the store has no other defect, check returns an error,
\* neither Ok(false) nor Ok(true); when the head file is absent, get_head
\* returns None without error and check returns Ok(true).
C14_MissingIsError ==
    /\ (EvOp = "check" /\ MissingFor(files, EvProc, EvArg) # {}) => ~EvRes.ok
    /\ (EvOp = "get_head" /\ HeadOf(files, NodeOf(EvProc)) = None) =>
            EvRes = Ok(None)
    /\ (EvOp = "check" /\ HeadOf(files, NodeOf(EvProc)) = None) =>
            (EvRes.ok /\ EvRes.val = TRUE)

\* A check in Slow mode has met a chain of two snapshots of which one block,
\* and nothing else, is missing, and has returned an error.
C14_Witness ==
    /\ EvOp = "check"
    /\ EvArg = "Slow"
    /\ ~EvRes.ok
    /\ begun = 2
    /\ Missing(files, EvProc) # {}
    /\ \A q \in Missing(files, EvProc) : q[1] = "blocks"

\* The snapshot made of the root of the last update_paths is the head.
Committed(p) ==
    /\ upd # None
    /\ upd[1].snap # None
    /\ HeadOf(files, NodeOf(p)) = upd[1].snap

\* C15: after update_paths(P) has returned the root R and new_snapshot(R)
\* has committed, get_path(q) returns the freshly stored object of q for
\* every retained path q of P, one that was not in the prior snapshot while
\* its parent directory was included.
C15_GetPathFresh ==
    (/\ EvOp = "get_path"
     /\ Committed(EvProc)
     /\ \E i \in 1..Len(upd[1].paths) : upd[1].paths[i] = EvArg) =>
        /\ EvRes.ok
        /\ EvRes.val # None
        /\ SaveTag(EvRes.val[1]) = SaveTag(StoredObject(upd[1].disk, EvArg))

\* What does hold: a retained path that was in the prior snapshot, or whose
\* parent directory was not, is found as stored.
C15_Known ==
    (/\ EvOp = "get_path"
     /\ Committed(EvProc)
     /\ \E i \in 1..Len(upd[1].paths) : upd[1].paths[i] = EvArg
     /\ EvRes.ok
     /\ EvRes.val # None) =>
        SaveTag(EvRes.val[1]) = SaveTag(StoredObject(upd[1].disk, EvArg))

\* C16: a path is stored in a snapshot and update_paths is run again on the
\* same path with the local files unchanged: the root tag returned is that of
\* the snapshot, and nothing is written.
C16_Step ==
    (/\ updates' = updates + 1
     /\ Committed(Client)
     /\ disk' = upd[1].disk
     /\ Retained(Canonicalized(disk', ev'[3])) = upd[1].paths) =>
        /\ ev'[4] = Ok(upd[1].root)
        /\ files' = files
        /\ dirs' = dirs

RECURSIVE SoundTree(_, _, _)
SoundTree(f, p, tag) ==
    Bind(ReadMetaIn(f, p, tag),
         LAMBDA obj :
            /\ obj.ok
            /\ obj.val.kind = "Tree"
            /\ \A i \in 1..Len(obj.val.children) :
                  Bind(ReadMetaIn(f, p, obj.val.children[i]),
                       LAMBDA kid :
                          /\ kid.ok
                          /\ kid.val.kind \in {"File", "Symlink", "Tree"}
                          /\ kid.val.kind = "Tree" =>
                                SoundTree(f, p, obj.val.children[i])))

\* Going down the chain from the object `head`, n snapshots having been
\* passed: the number of snapshots passed when the first object of the
\* wrong kind is met (the snapshot whose root it is under included), or None.
RECURSIVE FlawAt(_, _, _, _)
FlawAt(f, p, head, n) ==
    IF head = None THEN None
    ELSE IF head[1].kind # "Snapshot" THEN Some(n)
    ELSE IF ~SoundTree(f, p, head[1].root) THEN Some(n + 1)
    ELSE IF head[1].parent = None THEN None
    ELSE FlawAt(f, p, Some(ReadMetaIn(f, p, head[1].parent[1]).val), n + 1)

\* The same from the head of the node of p, every object being there.
Flaw(f, p) ==
    IF HeadOf(f, NodeOf(p)) = None THEN None
    ELSE FlawAt(f, p, Some(ReadMetaIn(f, p, HeadOf(f, NodeOf(p))[1]).val), 0)

Mismatched(f, p) ==
    {q \in ChainRefs(f, p) \cap DOMAIN f :
        /\ q[1] = "blocks"
        /\ ReadBlockIn(f, p, q[3]).ok
        /\ BlockTag(ReadBlockIn(f, p, q[3]).val) # q[3]}

\* The destination without its block files.
MetaOnly(f) == [q \in {r \in DOMAIN f : r[1] # "blocks"} |-> f[q]]

LostBlocks(f, p) == {q \in Missing(f, p) : q[1] = "blocks"}

C23_LoopsOnCycle ==
    (pc[Client] = "check" /\ chk[1].head # None /\ InPlace) =>
        LoopTurn(files, Client, chk[1].mode, chk[1].head) # GoesOn(chk[1].head)

(***************************************************************************)
(*              Claims about update_tree and its skeleton (C24, C25)        *)
(***************************************************************************)

\* q is not a path of the update, nor above nor below one.
Unrelated(q, paths) ==
    \A i \in 1..Len(paths) : ~StartsWith(q, paths[i]) /\ ~StartsWith(paths[i], q)

\* get_path(q) from the Tree `root` on.
PathUnder(f, p, root, q) == Descend(f, p, root, <<RootDir>> \o q)

\* C24: update_tree leaves unchanged subtrees unchanged.  For every path q
\* of the prior snapshot that is not equal to, not an ancestor of and not a
\* descendant of any update path, get_path(q) on the new root returns the
\* object of the same tag as on the prior root, and the file of that object
\* is not written: it is there before the call and the same after it.
C24_Step ==
    (updates' = updates + 1 /\ ev'[4].ok) =>
        \A q \in Paths :
            (/\ Unrelated(q, Retained(Canonicalized(disk', ev'[3])))
             /\ GetPath(files, Client, q).ok
             /\ GetPath(files, Client, q).val # None) =>
                Bind(SaveTag(GetPath(files, Client, q).val[1]),
                     LAMBDA tag :
                        /\ PathUnder(files', Client, ev'[4].val, q).ok
                        /\ PathUnder(files', Client, ev'[4].val, q).val # None
                        /\ SaveTag(PathUnder(files', Client, ev'[4].val, q).val[1]) = tag
                        /\ ObjPath("metadata", tag) \in DOMAIN files
                        /\ files'[ObjPath("metadata", tag)]
                                = files[ObjPath("metadata", tag)])

KidNames(f, p, tag) ==
    Bind(ReadMetaIn(f, p, tag).val.children,
         LAMBDA kids : [i \in 1..Len(kids) |-> ReadMetaIn(f, p, kids[i]).val.name])

\* The next path components below `root` among the paths.
NextParts(paths, root) ==
    {paths[i][Len(root) + 1] :
        i \in {j \in 1..Len(paths) : StartsWith(paths[j], root)
                                        /\ Len(paths[j]) > Len(root)}}

\* C25: the Tree built by build_tree_skeleton(root, updates) has exactly one
\* child for each update whose parent is root and exactly one subtree child
\* for each distinct next path component among the deeper updates; its
\* children have pairwise distinct names.  (With no snapshot stored,
\* update_paths builds the root Tree as the skeleton of /.)
C25_OneChildEach ==
    (/\ EvOp = "update_paths"
     /\ EvRes.ok
     /\ HeadOf(files, NodeOf(EvProc)) = None) =>
        Bind(KidNames(files, EvProc, EvRes.val),
             LAMBDA names :
                /\ Len(names) = Cardinality(NextParts(upd[1].paths, <<>>))
                /\ \A i, j \in 1..Len(names) : names[i] = names[j] => i = j)

\* What does hold: every child of the skeleton is named after the next path
\* component of an update, and every such component has a child.
C25_NamesCovered ==
    (/\ EvOp = "update_paths"
     /\ EvRes.ok
     /\ HeadOf(files, NodeOf(EvProc)) = None) =>
        Bind(KidNames(files, EvProc, EvRes.val),
             LAMBDA names :
                {names[i] : i \in 1..Len(names)} = NextParts(upd[1].paths, <<>>))

(***************************************************************************)
(*                     Claims about get_path (C26, C27)                    *)
(***************************************************************************)

\* What a lookup of the components comps from the object of tag on is to
\* return, every object being there: an integrity error at a non-Tree that
\* has components left to go, and, if `strict`, at a Tree with a Snapshot
\* among its children; None where no child has the name; else the object
\* arrived at.
RECURSIVE Lookup(_, _, _, _, _)
Lookup(f, p, tag, comps, strict) ==
    Bind(ReadMetaIn(f, p, tag).val,
         LAMBDA obj :
            IF obj.kind # "Tree" THEN Err("IntegrityError")
            ELSE IF comps = <<>> THEN Ok(Some(obj))
            ELSE Bind([i \in 1..Len(obj.children) |->
                            ReadMetaIn(f, p, obj.children[i]).val],
                      LAMBDA kids :
                        IF strict /\ \E i \in 1..Len(kids) : kids[i].kind = "Snapshot"
                        THEN Err("IntegrityError")
                        ELSE Bind({i \in 1..Len(kids) :
                                      /\ kids[i].kind # "Snapshot"
                                      /\ kids[i].name = Head(comps)},
                                  LAMBDA hits :
                                    IF hits = {} THEN Ok(None)
                                    ELSE IF Len(comps) = 1
                                    THEN Ok(Some(kids[MinOf(hits)]))
                                    ELSE Lookup(f, p, obj.children[MinOf(hits)],
                                                Tail(comps), strict))))

\* The same from the head of the node of p, which is absent or a Snapshot.
LookupFromHead(f, p, q, strict) ==
    IF HeadOf(f, NodeOf(p)) = None THEN Ok(None)
    ELSE Lookup(f, p, ReadMetaIn(f, p, HeadOf(f, NodeOf(p))[1]).val.root, q, strict)

HeadIsSnapshot(f, p) ==
    HeadOf(f, NodeOf(p)) # None =>
        ReadMetaIn(f, p, HeadOf(f, NodeOf(p))[1]).val.kind = "Snapshot"

\* C26: get_path(p) on the current snapshot returns None when no snapshot
\* exists or some component of p has no child of that name, an integrity
\* error when an intermediate component resolves to a non-Tree or a
\* traversed Tree has a Snapshot among its children, and otherwise the
\* object reached by matching each component bytewise against the child
\* names; get_path("/") returns the root Tree.
C26_GetPath ==
    (/\ EvOp = "get_path"
     /\ Missing(files, EvProc) = {}
     /\ HeadIsSnapshot(files, EvProc)) =>
        EvRes = LookupFromHead(files, EvProc, EvArg, TRUE)

\* What does hold: the same with the Snapshots among the children of a
\* traversed Tree passed over.
C26_SnapshotsPassedOver ==
    (/\ EvOp = "get_path"
     /\ Missing(files, EvProc) = {}
     /\ HeadIsSnapshot(files, EvProc)) =>
        EvRes = LookupFromHead(files, EvProc, EvArg, FALSE)

\* C27: caller precondition violations are returned as InvalidArgument and
\* never abort the process: get_path on a path with a current-dir or
\* parent-dir component, and update_paths (store_path) on an entry that is
\* neither a regular file, a directory nor a symlink, return an
\* InvalidArgument error to the caller.
C27_InvalidArgument ==
    /\ pc[Client] # "aborted"
    /\ (/\ EvOp = "get_path"
        /\ HeadOf(files, NodeOf(Client)) # None
        /\ \E i \in 1..Len(EvArg) : EvArg[i] \in {CurDir, ParentDir}) =>
            EvRes = Err("InvalidArgument")
    /\ (/\ EvOp = "update_paths"
        /\ \E q \in EvArg : StorePanics(disk, q)) =>
            EvRes = Err("InvalidArgument")

\* What does hold: no call returns InvalidArgument; the process is gone
\* exactly after a get_path that came to such a component or an
\* update_paths that came to such an entry, and a get_path that met no
\* snapshot returns Ok(None) whatever the path.
C27_Panics ==
    /\ EvRes # Err("InvalidArgument")
    /\ pc[Client] = "aborted" <=> EvRes = Panic
    /\ EvRes = Panic =>
            \/ /\ EvOp = "get_path"
               /\ \E i \in 1..Len(EvArg) : EvArg[i] \in {CurDir, ParentDir}
               /\ HeadOf(files, NodeOf(Client)) # None
            \/ /\ EvOp = "update_paths"
               /\ \E q \in EvArg : StorePanics(disk, q)
    /\ (EvOp = "update_paths" /\ \E q \in EvArg : StorePanics(disk, q)) =>
            EvRes = Panic
    /\ (EvOp = "get_path" /\ HeadOf(files, NodeOf(Client)) = None) =>
            EvRes = Ok(None)

\* The tag names a stored object that the node of p reads as a Snapshot.
StoredSnapshot(f, p, tag) ==
    /\ ObjPath("metadata", tag) \in DOMAIN f
    /\ Bind(ReadMetaIn(f, p, tag),
            LAMBDA obj : obj.ok /\ obj.val.kind = "Snapshot")

\* C28: the head of a node is absent or holds the tag of a stored Snapshot:
\* set_head(tag) with a tag that is not the tag of a stored Snapshot fails
\* with InvalidArgument and leaves the head unchanged.
C28_HeadIsSnapshot ==
    /\ HeadOf(files, NodeOf(Client)) # None =>
            StoredSnapshot(files, Client, HeadOf(files, NodeOf(Client))[1])
    /\ (/\ EvOp = "set_head"
        /\ ~StoredSnapshot(files, EvProc, EvArg[1])) =>
            EvRes = Err("InvalidArgument")

\* What does hold: set_head never returns InvalidArgument; with the lock
\* free it returns Ok(()) and the head holds the tag, whatever the kind of
\* the object of that tag.
C28_HeadIsAnyTag ==
    /\ EvOp = "set_head" => EvRes # Err("InvalidArgument")
    /\ (EvOp = "set_head" /\ EvRes.ok) =>
            HeadOf(files, NodeOf(EvProc)) = EvArg
    /\ HeadOf(files, NodeOf(Client)) # None =>
            ObjPath("metadata", HeadOf(files, NodeOf(Client))[1]) \in DOMAIN files

\* The head holds the tag of a Tree after a set_head that returned Ok(()).
C28_HeadIsTree ==
    /\ EvOp = "set_head"
    /\ EvRes.ok
    /\ HeadOf(files, NodeOf(Client)) = Some(SaveTag(TreeOfX))

(***************************************************************************)
(*                Claims about the release of the lock (C29)               *)
(***************************************************************************)

\* The step that ends the block in which p holds a BackendLock: the read of
\* the head file in get_head, the write of it in set_head or the failure of
\* one of its requests, the end of the statement in create.
BlockEnd(p) ==
    \/ get_head_read(p)
    \/ set_head_write(p)
    \/ set_head_create_fails(p)
    \/ set_head_write_fails(p)
    \/ create_drop(p)

\* A process that is not gone comes to the end of the block it is in.
SpecFaultsFair == SpecFaultsSerial /\ \A p \in Procs : WF_vars(BlockEnd(p))

\* bkp.lock is there only while the process that created it is in the block
\* that took it; no call that returned has left it behind.
Released ==
    /\ LockPath \in DOMAIN files => files[LockPath] \in Holders
    /\ (EvProc \in Procs /\ EvOp \in {"get_snapshot", "new_snapshot"}) =>
            /\ EvProc \notin Holders
            /\ LockPath \notin DOMAIN files

C30_ReadsOwnWrite ==
    (EvOp = "write_meta" /\ EvRes.ok) =>
        \E obj \in MetaObjects :
            /\ EvArg = Some(SaveBytes(obj))
            /\ EvRes.val = SaveTag(obj)
            /\ ReadMetaResult(EvProc, EvRes.val) = Ok(obj)

\* The node whose write made the file of the tag.
WriterOf(f, tag) == f[ObjPath("metadata", tag)][1].ad

\* What does hold: write_meta returns the tag of the object; read_meta of
\* that tag returns the object to the node whose write made the file, and
\* a CryptoError to any other node, the one whose write_meta has returned
\* the tag included.
C30_ReadsOwnFile ==
    /\ (EvOp = "write_meta" /\ EvRes.ok) =>
          \E obj \in MetaObjects :
              /\ EvArg = Some(SaveBytes(obj))
              /\ EvRes.val = SaveTag(obj)
              /\ ReadMetaResult(EvProc, EvRes.val) =
                    IF WriterOf(files, EvRes.val) = NodeOf(EvProc)
                    THEN Ok(obj) ELSE Err("CryptoError")
    /\ (EvOp = "read_meta" /\ ObjPath("metadata", EvArg[1]) \in DOMAIN files) =>
          \E obj \in MetaObjects :
              /\ EvArg = Some(SaveTag(obj))
              /\ EvRes = IF WriterOf(files, EvArg[1]) = NodeOf(EvProc)
                         THEN Ok(obj) ELSE Err("CryptoError")

====
